---------------------------- MODULE Spec2Model ----------------------------
(***************************************************************************)
(* Model of the Graph-RAG psychotherapist agent:                           *)
(*   - the two risk classifiers (services/safety_service.py and            *)
(*     graph_rag/services/safety_service.py),                              *)
(*   - hybrid fusion, context assembly and provenance                      *)
(*     (orchestrator/nodes/*.py, core/utils.py),                           *)
(*   - the LangGraph stage machine behind process_message                  *)
(*     (orchestrator/graph_dag.py).                                        *)
(*                                                                         *)
(* Text is modelled by TLA+ strings, on which Len, SubSeq and \o act per   *)
(* character.  Optional values (None | x) are sequences: <<>> is None and  *)
(* <<x>> is x.  Scores are integers: classifier scores in hundredths,      *)
(* retrieval scores in thousandths, fusion weights in tenths, so a         *)
(* weighted score is in ten-thousandths.                                   *)
(***************************************************************************)
EXTENDS Integers, Sequences, FiniteSets, TLC

VARIABLES
    \* --- classifier harness ---
    text,          \* the input handed to the classifiers
    check_result,  \* Option: result of services SafetyService.check_input
    analysis,      \* Option: result of graph_rag SafetyService.analyze_message
    \* --- fusion harness ---
    fstate,        \* a PipelineState holding the retrieval results to fuse
    fpc,           \* the next fusion-side node to apply to fstate
    \* --- one run of process_message ---
    request,       \* the MessageRequest send_message was called with
    state,         \* the run's PipelineState
    pc,            \* the node the graph runs next, "END", "raised" or "returned"
    exc,           \* Option: str(e) of the exception that left graph.ainvoke
    ret,           \* the dict process_message returned (<<>> before it returns)
    executed,      \* history: the nodes entered so far, in order, each with the
                   \* decision flags of the state it left behind
    calls,         \* history: the external backends called so far, in order
    \* --- one call of llm_invoke_streaming ---
    prompt,        \* the prompt argument
    stream,        \* the backend events not consumed yet
    spc,           \* position: "create", "loop", "except", "done" or "raised"
    serr,          \* Option: str(e) of the exception the except clause caught
    consumer,      \* "open" or "closed": whether the callback can still send
    offered,       \* history: the fragments the callback was called with
    reply,         \* history: the content the backend has yielded so far
    \* --- concurrent runs of process_message ---
    runs,          \* run id -> [state, pc, exc, ret, executed] of that run
    heap,          \* object id -> the node_timings dict stored there
    \* --- graph_rag: runs of the pipeline of core/pipeline.py and their cache ---
    pruns,         \* run id -> [query, pc, state, reply, partial, hit, embedded]
    cachemem,      \* the Redis keyspace: the set of [key, value] entries
    cachelog,      \* history: the cache calls made, as [run, op, key, ok, value]
    \* --- graph_rag: one run of the graph of graph/graph.py ---
    gstate,        \* the run's GraphState
    gpc,           \* the node the graph runs next, or "END"
    gran           \* history: the nodes run so far, in order

clsVars == <<text, check_result, analysis>>
fusVars == <<fstate, fpc>>
runVars == <<request, state, pc, exc, ret, executed, calls>>
strVars == <<prompt, stream, spc, serr, consumer, offered, reply>>
conVars == <<runs, heap>>
grVars == <<pruns, cachemem, cachelog, gstate, gpc, gran>>
vars == <<text, check_result, analysis, fstate, fpc,
          request, state, pc, exc, ret, executed, calls,
          prompt, stream, spc, serr, consumer, offered, reply,
          runs, heap,
          pruns, cachemem, cachelog, gstate, gpc, gran>>

----------------------------------------------------------------------------
(* Python built-ins used by the code *)

Min(a, b) == IF a <= b THEN a ELSE b

None == <<>>
Some(x) == <<x>>

\* s[:n]
Slice(s, n) == SubSeq(s, 1, Min(Len(s), n))

\* kw in s
Contains(s, kw) ==
    \E i \in 1..(Len(s) - Len(kw) + 1) : SubSeq(s, i, i + Len(kw) - 1) = kw

UpperCase == "ABCDEFGHIJKLMNOPQRSTUVWXYZ"
LowerCase == "abcdefghijklmnopqrstuvwxyz"

LowerChar(c) ==
    IF \E i \in 1..26 : SubSeq(UpperCase, i, i) = c
    THEN LET i == CHOOSE j \in 1..26 : SubSeq(UpperCase, j, j) = c
         IN SubSeq(LowerCase, i, i)
    ELSE c

\* s.lower()
RECURSIVE lower(_)
lower(s) ==
    IF Len(s) = 0 THEN ""
    ELSE IF Len(s) = 1 THEN LowerChar(s)
    ELSE LET h == Len(s) \div 2
         IN lower(SubSeq(s, 1, h)) \o lower(SubSeq(s, h + 1, Len(s)))

IsSpace(c) == c \in {" ", "\n", "\t"}

\* s.strip()
RECURSIVE strip(_)
strip(s) ==
    IF s = "" THEN ""
    ELSE IF IsSpace(SubSeq(s, 1, 1)) THEN strip(SubSeq(s, 2, Len(s)))
    ELSE IF IsSpace(SubSeq(s, Len(s), Len(s))) THEN strip(SubSeq(s, 1, Len(s) - 1))
    ELSE s

\* \w of the re module, on lower-cased ASCII text
IsWordChar(c) ==
    \/ \E i \in 1..26 : SubSeq(LowerCase, i, i) = c
    \/ c \in {"0", "1", "2", "3", "4", "5", "6", "7", "8", "9", "_"}

\* \b at the gap before position i of s (1 <= i <= Len(s) + 1)
WordBoundary(s, i) ==
    LET before == i > 1 /\ IsWordChar(SubSeq(s, i - 1, i - 1))
        after  == i <= Len(s) /\ IsWordChar(SubSeq(s, i, i))
    IN before # after

\* re.compile(p, re.IGNORECASE).search(message) for a pattern \b(lit1|lit2|..)\b,
\* where p.alts is the set of literals the pattern's optional parts expand to.
Search(p, message) ==
    LET m == lower(message) IN
    \E lit \in p.alts :
        \E i \in 1..(Len(m) - Len(lit) + 1) :
            /\ SubSeq(m, i, i + Len(lit) - 1) = lit
            /\ WordBoundary(m, i)
            /\ WordBoundary(m, i + Len(lit))

----------------------------------------------------------------------------
(* core/settings.py: keyword lists of the orchestrator's classifier *)

CRITICAL_KEYWORDS ==
    <<"suicide", "kill myself", "end my life", "self harm",
      "hurt myself", "want to die", "no reason to live">>

HIGH_RISK_KEYWORDS ==
    <<"depressed", "hopeless", "worthless", "alone",
      "scared", "afraid", "anxious", "panic">>

\* any(kw in text for kw in keywords)
AnyKeyword(keywords, s) ==
    \E k \in 1..Len(keywords) : Contains(s, keywords[k])

\* Mutant of check_input: the high-risk list is tested before the critical list.
check_input_HighRiskFirst(s) ==
    LET text_lower == lower(s) IN
    IF AnyKeyword(HIGH_RISK_KEYWORDS, text_lower)
    THEN [level |-> "high_risk", score |-> 75, should_escalate |-> FALSE]
    ELSE IF AnyKeyword(CRITICAL_KEYWORDS, text_lower)
    THEN [level |-> "critical", score |-> 95, should_escalate |-> TRUE]
    ELSE [level |-> "safe", score |-> 10, should_escalate |-> FALSE]

(* services/safety_service.py: SafetyService.check_input *)
check_input(s) ==
    LET text_lower == lower(s) IN
    IF AnyKeyword(CRITICAL_KEYWORDS, text_lower)
    THEN [level |-> "critical", score |-> 95, should_escalate |-> TRUE]
    ELSE IF AnyKeyword(HIGH_RISK_KEYWORDS, text_lower)
    THEN [level |-> "high_risk", score |-> 75, should_escalate |-> FALSE]
    ELSE [level |-> "safe", score |-> 10, should_escalate |-> FALSE]

(* services/safety_service.py: SafetyService.check_output *)
check_output(s) ==
    [level |-> "safe", score |-> 10, should_escalate |-> FALSE]

----------------------------------------------------------------------------
(* graph_rag/services/safety_service.py *)

Pat(src, alts) == [pattern |-> src, alts |-> alts]

CRITICAL_PATTERNS == <<
    Pat("\\bsuicide\\b", {"suicide"}),
    Pat("\\bsuicidal\\b", {"suicidal"}),
    Pat("\\bkill myself\\b", {"kill myself"}),
    Pat("\\bend my life\\b", {"end my life"}),
    Pat("\\bwant to die\\b", {"want to die"}),
    Pat("\\bdon'?t want to live\\b", {"don't want to live", "dont want to live"}),
    Pat("\\bself[- ]?harm\\b", {"self-harm", "self harm", "selfharm"}),
    Pat("\\bcut myself\\b", {"cut myself"}),
    Pat("\\bhurt myself\\b", {"hurt myself"}),
    Pat("\\boverdose\\b", {"overdose"}) >>

HIGH_PATTERNS == <<
    Pat("\\babuse\\b", {"abuse"}),
    Pat("\\babused\\b", {"abused"}),
    Pat("\\bviolence\\b", {"violence"}),
    Pat("\\bviolent\\b", {"violent"}),
    Pat("\\bhopeless\\b", {"hopeless"}),
    Pat("\\bno hope\\b", {"no hope"}),
    Pat("\\bworthless\\b", {"worthless"}),
    Pat("\\bno reason to live\\b", {"no reason to live"}),
    Pat("\\bgive up\\b", {"give up"}),
    Pat("\\bgiving up\\b", {"giving up"}),
    Pat("\\bcan'?t go on\\b", {"can't go on", "cant go on"}) >>

MODERATE_PATTERNS == <<
    Pat("\\bdepressed\\b", {"depressed"}),
    Pat("\\bdepression\\b", {"depression"}),
    Pat("\\banxiety\\b", {"anxiety"}),
    Pat("\\banxious\\b", {"anxious"}),
    Pat("\\bpanic attack\\b", {"panic attack"}),
    Pat("\\bscared\\b", {"scared"}),
    Pat("\\bterrified\\b", {"terrified"}),
    Pat("\\btrauma\\b", {"trauma"}),
    Pat("\\bptsd\\b", {"ptsd"}),
    Pat("\\beating disorder\\b", {"eating disorder"}),
    Pat("\\banorexia\\b", {"anorexia"}),
    Pat("\\bbulimia\\b", {"bulimia"}) >>

\* The canned responses (the emoji of the source text are left out).
CRISIS_RESPONSE ==
    "\nI'm really concerned about what you've shared with me. Your safety is the top priority right now.\n\n**Please reach out for immediate support:**\n- **Emergency Services**: 911 (US) or your local emergency number\n- **988 Suicide & Crisis Lifeline**: Call or text 988 (US)\n- **Crisis Text Line**: Text HOME to 741741\n\nThese services are available 24/7 and staffed by trained professionals who can help.\n\nYou're not alone, and there are people who care about you and want to help. Would you like me to provide more information about any of these resources?\n"

HIGH_RISK_RESPONSE ==
    "\nI hear you, and what you're going through sounds really difficult. I want to make sure you have access to the right support.\n\n**Support resources available to you:**\n- **SAMHSA Helpline**: 1-800-662-4357 (24/7, free, confidential)\n- **SAMHSA Treatment Locator**: findtreatment.gov\n- **Crisis Text Line**: Text HOME to 741741\n\nIt's okay to reach out for help. Would you like to talk more about what you're experiencing?\n"

\* One of the three loops of analyze_message: for every pattern that matches,
\* append it to triggered and raise risk_score to at least `weight`.
RECURSIVE ScanTier(_, _, _, _, _)
ScanTier(patterns, k, message, weight, acc) ==
    IF k > Len(patterns) THEN acc
    ELSE IF Search(patterns[k], message)
    THEN ScanTier(patterns, k + 1, message, weight,
                  [triggered |-> Append(acc.triggered, patterns[k].pattern),
                   risk_score |-> IF acc.risk_score >= weight
                                  THEN acc.risk_score ELSE weight])
    ELSE ScanTier(patterns, k + 1, message, weight, acc)

\* Mutant of LevelOf: the low rung tests risk_score >= 0 instead of > 0.
LevelOf_LowFromZero(risk_score) ==
    IF risk_score >= 90
    THEN [risk_level |-> "critical", safe_response |-> Some(CRISIS_RESPONSE),
          requires_escalation |-> TRUE]
    ELSE IF risk_score >= 70
    THEN [risk_level |-> "high", safe_response |-> Some(HIGH_RISK_RESPONSE),
          requires_escalation |-> TRUE]
    ELSE IF risk_score >= 40
    THEN [risk_level |-> "moderate", safe_response |-> None,
          requires_escalation |-> FALSE]
    ELSE IF risk_score >= 0
    THEN [risk_level |-> "low", safe_response |-> None,
          requires_escalation |-> FALSE]
    ELSE [risk_level |-> "safe", safe_response |-> None,
          requires_escalation |-> FALSE]

\* "Determine risk level": the threshold ladder of analyze_message
LevelOf(risk_score) ==
    IF risk_score >= 90
    THEN [risk_level |-> "critical", safe_response |-> Some(CRISIS_RESPONSE),
          requires_escalation |-> TRUE]
    ELSE IF risk_score >= 70
    THEN [risk_level |-> "high", safe_response |-> Some(HIGH_RISK_RESPONSE),
          requires_escalation |-> TRUE]
    ELSE IF risk_score >= 40
    THEN [risk_level |-> "moderate", safe_response |-> None,
          requires_escalation |-> FALSE]
    ELSE IF risk_score > 0
    THEN [risk_level |-> "low", safe_response |-> None,
          requires_escalation |-> FALSE]
    ELSE [risk_level |-> "safe", safe_response |-> None,
          requires_escalation |-> FALSE]

(* SafetyService.analyze_message *)
analyze_message(message) ==
    LET a0 == [triggered |-> <<>>, risk_score |-> 0]
        a1 == ScanTier(CRITICAL_PATTERNS, 1, message, 95, a0)
        a2 == ScanTier(HIGH_PATTERNS, 1, message, 75, a1)
        a3 == ScanTier(MODERATE_PATTERNS, 1, message, 50, a2)
        lv == LevelOf(a3.risk_score)
    IN [risk_level |-> lv.risk_level,
        risk_score |-> a3.risk_score,
        triggered_keywords |-> a3.triggered,
        requires_escalation |-> lv.requires_escalation,
        safe_response |-> lv.safe_response]

----------------------------------------------------------------------------
(* core/settings.py *)

WEIGHT_VECTOR == 6            \* 0.6, in tenths
WEIGHT_GRAPH == 3             \* 0.3, in tenths
MAX_CONTEXT_SNIPPETS == 6
MAX_CONTEXT_FACTS == 12
MAX_CONTEXT_TOKENS == 1800
MAX_MESSAGE_LENGTH == 2000

\* d.get(k, default) on a dict modelled as a function
Get(d, k, default) == IF k \in DOMAIN d THEN d[k] ELSE default

\* str(i) for i >= 0
Digits == "0123456789"
RECURSIVE str(_)
str(i) ==
    IF i < 10 THEN SubSeq(Digits, i + 1, i + 1)
    ELSE str(i \div 10) \o SubSeq(Digits, (i % 10) + 1, (i % 10) + 1)

\* round(x, 3) of a score held in ten-thousandths; the result is in thousandths
\* (round half to even)
Round3(x) ==
    LET q == x \div 10
        r == x % 10
    IN IF r < 5 THEN q
       ELSE IF r > 5 THEN q + 1
       ELSE IF q % 2 = 0 THEN q ELSE q + 1

(* orchestrator/nodes/hybrid_scorer.py *)

\* the dict appended to `combined` for a vector result
VectorItem(hit) ==
    [id |-> hit.id, text |-> hit.text, type |-> "vector",
     score |-> WEIGHT_VECTOR * hit.score]

\* the dict appended to `combined` for a graph result
GraphItem(hit) ==
    [id |-> hit.id, text |-> Get(hit, "text", ""), type |-> "graph",
     score |-> WEIGHT_GRAPH * Get(hit, "score", 500)]

Combined(vector_results, graph_results) ==
    [i \in 1..(Len(vector_results) + Len(graph_results)) |->
        IF i <= Len(vector_results)
        THEN VectorItem(vector_results[i])
        ELSE GraphItem(graph_results[i - Len(vector_results)])]

\* Mutant of InsertByScore: x goes in front of the items of equal score, which
\* is what sorting ascending and reversing the list does to ties.
RECURSIVE InsertByScore_TiesReversed(_, _)
InsertByScore_TiesReversed(x, sorted) ==
    IF sorted = <<>> THEN <<x>>
    ELSE IF Head(sorted).score > x.score
    THEN <<Head(sorted)>> \o InsertByScore_TiesReversed(x, Tail(sorted))
    ELSE <<x>> \o sorted

\* Place x in a list that is ordered by descending score, behind every item
\* whose score is at least x's.
RECURSIVE InsertByScore(_, _)
InsertByScore(x, sorted) ==
    IF sorted = <<>> THEN <<x>>
    ELSE IF Head(sorted).score >= x.score
    THEN <<Head(sorted)>> \o InsertByScore(x, Tail(sorted))
    ELSE <<x>> \o sorted

\* sorted(items, key=lambda x: x["score"], reverse=True): Python's sort is
\* stable, also with reverse=True
RECURSIVE SortedByScoreDesc(_)
SortedByScoreDesc(items) ==
    IF items = <<>> THEN <<>>
    ELSE InsertByScore(items[Len(items)],
                       SortedByScoreDesc(SubSeq(items, 1, Len(items) - 1)))

hybrid_scorer_node(st) ==
    [st EXCEPT
        !.hybrid_results =
            SortedByScoreDesc(Combined(st.vector_results, st.graph_results)),
        !.node_timings = @ \cup {"hybrid_scoring"}]

(* orchestrator/nodes/context_builder.py *)

CONTEXT_HEADER == "Relevant therapeutic knowledge:\n"

\* f"{i}. {result['text'][:300]}"
ContextLine(i, item) == str(i) \o ". " \o Slice(item.text, 300)

\* The loop over enumerate(top_results, 1), from item i on
RECURSIVE ContextParts(_, _)
ContextParts(top_results, i) ==
    IF i > Len(top_results) THEN <<>>
    ELSE IF top_results[i].text # ""
    THEN <<ContextLine(i, top_results[i])>> \o ContextParts(top_results, i + 1)
    ELSE ContextParts(top_results, i + 1)

\* "\n".join(parts)
RECURSIVE JoinLines(_)
JoinLines(parts) ==
    IF Len(parts) = 0 THEN ""
    ELSE IF Len(parts) = 1 THEN parts[1]
    ELSE parts[1] \o "\n" \o JoinLines(Tail(parts))

\* The prompt template, with its three slots
Prompt(context, age_range, user_message) ==
    "You are Sahyog, an empathetic AI counselor for children and adolescents.\n\nContext:\n"
    \o context \o "\n\nUser (" \o age_range \o " years old): " \o user_message
    \o "\n\nProvide a supportive, age-appropriate response that helps the child understand and manage their feelings. Use the context provided to give evidence-based guidance."

context_builder_node(st) ==
    LET top_results ==
            Slice(st.hybrid_results, MAX_CONTEXT_SNIPPETS + MAX_CONTEXT_FACTS)
        context == JoinLines(<<CONTEXT_HEADER>> \o ContextParts(top_results, 1))
    IN [st EXCEPT
            !.context = context,
            !.prompt = Prompt(context, st.age_range, st.user_message),
            !.node_timings = @ \cup {"context_building"}]

(* core/utils.py: format_provenance, and orchestrator/nodes/provenance_builder.py *)

format_provenance(sources) ==
    [k \in 1..Len(sources) |->
        [source_id |-> Get(sources[k], "id", None),
         type |-> Get(sources[k], "type", None),
         score |-> Round3(Get(sources[k], "score", 0)),
         snippet |-> Slice(Get(sources[k], "text", ""), 200)]]

provenance_builder_node(st) ==
    [st EXCEPT
        !.provenance = format_provenance(Slice(st.hybrid_results, 10)),
        !.node_timings = @ \cup {"provenance"}]

(* orchestrator/graph_dag.py: PipelineState(session_id, user_message, language, age_range) *)
\* node_timings holds the keys written so far; the elapsed times are left out.
PipelineState(session_id, user_message, language, age_range) ==
    [session_id |-> session_id,
     user_message |-> user_message,
     language |-> language,
     age_range |-> age_range,
     query_embedding |-> None,
     vector_results |-> <<>>,
     graph_results |-> <<>>,
     hybrid_results |-> <<>>,
     context |-> "",
     prompt |-> "",
     llm_response |-> "",
     safety_level |-> "safe",
     safety_score |-> 0,
     should_escalate |-> FALSE,
     skip_llm |-> FALSE,
     provenance |-> <<>>,
     node_timings |-> {},
     error |-> None]

----------------------------------------------------------------------------
(* core/utils.py: sanitize_input *)
sanitize_input(s) == Slice(strip(s), 2000)

\* bool(x) of an optional list: None and [] are falsy
Truthy(opt) == opt # None /\ opt[1] # <<>>

(* orchestrator/nodes/preprocess.py; embedding is what embed_text returned *)
preprocess_node(st, embedding) ==
    [st EXCEPT
        !.user_message = sanitize_input(@),
        !.query_embedding = Some(embedding),
        !.node_timings = @ \cup {"preprocess"}]

\* Mutant of safety_prefilter_node: skip_llm is set for every input that is
\* not classified safe.
safety_prefilter_node_SkipsOnRisk(st) ==
    LET res == check_input(st.user_message) IN
    [st EXCEPT
        !.safety_level = res.level,
        !.safety_score = res.score,
        !.should_escalate = res.should_escalate,
        !.skip_llm = res.level # "safe",
        !.node_timings = @ \cup {"safety_prefilter"}]

(* orchestrator/nodes/safety_prefilter.py *)
safety_prefilter_node(st) ==
    LET res == check_input(st.user_message) IN
    [st EXCEPT
        !.safety_level = res.level,
        !.safety_score = res.score,
        !.should_escalate = res.should_escalate,
        !.skip_llm = res.should_escalate,
        !.node_timings = @ \cup {"safety_prefilter"}]

(* orchestrator/nodes/vector_retriever.py; answer is what vector_store.search returns *)
vector_retriever_node(st, answer) ==
    [st EXCEPT
        !.vector_results = IF Truthy(st.query_embedding) THEN answer ELSE @,
        !.node_timings = @ \cup {"vector_retrieval"}]

(* orchestrator/nodes/kg_mapper.py; seed_nodes and expansion are what the graph backend returns *)
kg_mapper_node(st, seed_nodes, expansion) ==
    [st EXCEPT
        !.graph_results = IF seed_nodes # <<>> THEN expansion ELSE @,
        !.node_timings = @ \cup {"kg_mapping"}]

LLM_APOLOGY == "I apologize, but I'm having trouble responding right now."

(* orchestrator/nodes/llm_invoker_gpt5.py: llm_invoker_node; outcome is the *)
(* completion the backend returned (its message content a string), or the  *)
(* exception the call raised                                               *)
llm_invoker_node(st, outcome) ==
    IF outcome.ok
    THEN [st EXCEPT
            !.llm_response = outcome.content[1],
            !.node_timings = @ \cup {"llm_invocation"}]
    ELSE [st EXCEPT
            !.llm_response = LLM_APOLOGY,
            !.error = Some(outcome.error),
            !.node_timings = @ \cup {"llm_invocation"}]

\* Mutant of safety_postfilter_node: should_escalate is overwritten with the
\* output check's flag.
safety_postfilter_node_OverwritesFlag(st) ==
    LET res == check_output(st.llm_response) IN
    [st EXCEPT
        !.safety_score = IF res.score > st.safety_score THEN res.score ELSE @,
        !.safety_level = IF res.score > st.safety_score THEN res.level ELSE @,
        !.should_escalate = res.should_escalate,
        !.node_timings = @ \cup {"safety_postfilter"}]

\* Mutant of safety_postfilter_node: the reply of a run whose level is not
\* safe is blanked.
safety_postfilter_node_BlanksRiskyReply(st) ==
    LET res == check_output(st.llm_response) IN
    [st EXCEPT
        !.safety_score = IF res.score > st.safety_score THEN res.score ELSE @,
        !.safety_level = IF res.score > st.safety_score THEN res.level ELSE @,
        !.should_escalate = IF res.should_escalate THEN TRUE ELSE @,
        !.llm_response = IF st.safety_level # "safe" THEN "" ELSE @,
        !.node_timings = @ \cup {"safety_postfilter"}]

(* orchestrator/nodes/safety_postfilter.py *)
safety_postfilter_node(st) ==
    LET res == check_output(st.llm_response) IN
    [st EXCEPT
        !.safety_score = IF res.score > st.safety_score THEN res.score ELSE @,
        !.safety_level = IF res.score > st.safety_score THEN res.level ELSE @,
        !.should_escalate = IF res.should_escalate THEN TRUE ELSE @,
        !.node_timings = @ \cup {"safety_postfilter"}]

(* orchestrator/nodes/response_streamer.py *)
response_streamer_node(st) ==
    [st EXCEPT !.node_timings = @ \cup {"response_stream"}]

(* orchestrator/graph_dag.py: build_graph, the edges *)

\* Mutant of AfterPrefilter: the two targets of the path map are exchanged.
AfterPrefilter_TargetsSwapped(st) ==
    IF st.should_escalate THEN "vector_retriever" ELSE "END"

\* the conditional edge after safety_prefilter
AfterPrefilter(st) ==
    IF st.should_escalate THEN "END" ELSE "vector_retriever"

\* Mutant of AfterContext: the two targets of the path map are exchanged.
AfterContext_TargetsSwapped(st) ==
    IF st.skip_llm THEN "llm_invoker" ELSE "END"

\* the conditional edge after context_builder
AfterContext(st) ==
    IF st.skip_llm THEN "END" ELSE "llm_invoker"

\* Mutant of NextNode: the edge out of vector_retriever bypasses kg_mapper.
NextNode_BypassesKgMapper(node, st) ==
    CASE node = "preprocess" -> "safety_prefilter"
      [] node = "safety_prefilter" -> AfterPrefilter(st)
      [] node = "vector_retriever" -> "hybrid_scorer"
      [] node = "kg_mapper" -> "hybrid_scorer"
      [] node = "hybrid_scorer" -> "context_builder"
      [] node = "context_builder" -> AfterContext(st)
      [] node = "llm_invoker" -> "safety_postfilter"
      [] node = "safety_postfilter" -> "provenance_builder"
      [] node = "provenance_builder" -> "response_streamer"
      [] node = "response_streamer" -> "END"

NextNode(node, st) ==
    CASE node = "preprocess" -> "safety_prefilter"
      [] node = "safety_prefilter" -> AfterPrefilter(st)
      [] node = "vector_retriever" -> "kg_mapper"
      [] node = "kg_mapper" -> "hybrid_scorer"
      [] node = "hybrid_scorer" -> "context_builder"
      [] node = "context_builder" -> AfterContext(st)
      [] node = "llm_invoker" -> "safety_postfilter"
      [] node = "safety_postfilter" -> "provenance_builder"
      [] node = "provenance_builder" -> "response_streamer"
      [] node = "response_streamer" -> "END"

(* orchestrator/graph_dag.py: process_message, the dict of the try branch *)
ResponseOf(final_state) ==
    [response |-> final_state.llm_response,
     safety_level |-> final_state.safety_level,
     safety_score |-> final_state.safety_score,
     provenance |-> final_state.provenance,
     escalated |-> final_state.should_escalate,
     timings |-> final_state.node_timings]

PIPELINE_APOLOGY == "I apologize, but I'm having trouble right now. Please try again."

\* Mutant of DegradedResponse: the except branch reports the default level.
DegradedResponse_SafeLevel(e) ==
    [response |-> PIPELINE_APOLOGY,
     safety_level |-> "safe",
     safety_score |-> 0,
     provenance |-> <<>>,
     escalated |-> FALSE,
     error |-> e]

(* process_message, the dict of the except branch *)
DegradedResponse(e) ==
    [response |-> PIPELINE_APOLOGY,
     safety_level |-> "error",
     safety_score |-> 0,
     provenance |-> <<>>,
     escalated |-> FALSE,
     error |-> e]

----------------------------------------------------------------------------
(* Classifier harness: an input text is drawn, then each classifier is     *)
(* applied to it.                                                          *)

MaxPhrases == 2

Phrases ==
    {"I want to kill myself", "no reason to live", "so hopeless",
     "Depressed", "I had a good day", "SUICIDE", "abalone", "panic attack"}

RECURSIVE JoinWords(_)
JoinWords(ws) ==
    IF Len(ws) = 0 THEN ""
    ELSE IF Len(ws) = 1 THEN ws[1]
    ELSE ws[1] \o " " \o JoinWords(Tail(ws))

Texts ==
    {JoinWords(ws) : ws \in UNION {[1..n -> Phrases] : n \in 0..MaxPhrases}}

ClassifierIdle == text = "" /\ check_result = None /\ analysis = None
FusionIdle == fstate = <<>> /\ fpc = "idle"
RunIdle ==
    /\ request = <<>> /\ state = <<>> /\ pc = "idle" /\ exc = None /\ ret = <<>>
    /\ executed = <<>> /\ calls = <<>>
StreamingIdle ==
    /\ prompt = "" /\ stream = <<>> /\ spc = "idle" /\ serr = None
    /\ consumer = "open" /\ offered = <<>> /\ reply = ""
ConcurrentIdle == runs = <<>> /\ heap = <<>>
GraphRagIdle ==
    /\ pruns = <<>> /\ cachemem = {} /\ cachelog = {}
    /\ gstate = <<>> /\ gpc = "idle" /\ gran = <<>>

InitClassifier ==
    /\ text \in Texts
    /\ check_result = None
    /\ analysis = None
    /\ FusionIdle
    /\ RunIdle
    /\ StreamingIdle
    /\ ConcurrentIdle
    /\ GraphRagIdle

CheckInput ==
    /\ check_result = None
    /\ check_result' = Some(check_input(text))
    /\ UNCHANGED <<text, analysis, fusVars, runVars, strVars, conVars, grVars>>

AnalyzeMessage ==
    /\ analysis = None
    /\ analysis' = Some(analyze_message(text))
    /\ UNCHANGED <<text, check_result, fusVars, runVars, strVars, conVars, grVars>>

NextClassifier == CheckInput \/ AnalyzeMessage

SpecClassifier == InitClassifier /\ [][NextClassifier]_vars

----------------------------------------------------------------------------
(* Fusion harness: retrieval results are drawn, then hybrid_scorer_node,   *)
(* context_builder_node and provenance_builder_node are applied in the     *)
(* order of the graph's edges.                                             *)

MaxHits == 2
MaxLongHits == 19

SeqsUpTo(S, n) == UNION {[1..k -> S] : k \in 0..n}

RECURSIVE Rep(_, _)
Rep(c, n) ==
    IF n = 0 THEN ""
    ELSE IF n % 2 = 0 THEN LET h == Rep(c, n \div 2) IN h \o h
    ELSE c \o Rep(c, n - 1)

\* what VectorStore.search returns: id, score, text
VectorHits ==
    {[id |-> i, score |-> sc, text |-> "slow breathing calms the body"] :
        i \in {"v1", "v2"}, sc \in {900, 400, 300}}

\* what a graph backend returns: id, and possibly text and score
GraphHits ==
    {[id |-> i, text |-> "worry feeds anxiety", score |-> 600] : i \in {"g1", "v1"}}
    \cup {[id |-> i] : i \in {"g1", "v1"}}

\* n vector hits of distinct ids and descending scores whose texts have len characters
LongHits(n, len) ==
    [k \in 1..n |-> [id |-> "d" \o str(k), score |-> 900 - k, text |-> Rep("x", len)]]

FusionInputs ==
    (SeqsUpTo(VectorHits, MaxHits) \X SeqsUpTo(GraphHits, MaxHits))
    \cup {<<LongHits(n, len), <<>>>> : n \in 0..MaxLongHits, len \in {0, 1, 300, 301}}

InitFusion ==
    /\ \E inp \in FusionInputs :
           fstate = [PipelineState("s1", "How can I manage anxiety?", "en", "8-12")
                        EXCEPT !.vector_results = inp[1], !.graph_results = inp[2]]
    /\ fpc = "hybrid_scorer"
    /\ ClassifierIdle
    /\ RunIdle
    /\ StreamingIdle
    /\ ConcurrentIdle
    /\ GraphRagIdle

Fuse ==
    /\ fpc = "hybrid_scorer"
    /\ fstate' = hybrid_scorer_node(fstate)
    /\ fpc' = "context_builder"
    /\ UNCHANGED <<clsVars, runVars, strVars, conVars, grVars>>

BuildContext ==
    /\ fpc = "context_builder"
    /\ fstate' = context_builder_node(fstate)
    /\ fpc' = "provenance_builder"
    /\ UNCHANGED <<clsVars, runVars, strVars, conVars, grVars>>

BuildProvenance ==
    /\ fpc = "provenance_builder"
    /\ fstate' = provenance_builder_node(fstate)
    /\ fpc' = "done"
    /\ UNCHANGED <<clsVars, runVars, strVars, conVars, grVars>>

NextFusion == Fuse \/ BuildContext \/ BuildProvenance

SpecFusion == InitFusion /\ [][NextFusion]_vars

----------------------------------------------------------------------------
(* One run of process_message (orchestrator/graph_dag.py): graph.ainvoke   *)
(* runs the nodes along the edges of build_graph; a node that awaits an    *)
(* external backend takes what the backend returns, or the exception it    *)
(* raises, which leaves graph.ainvoke and is caught by process_message.    *)

\* user messages handed to process_message
Messages ==
    {"I want to kill myself", "How can I manage anxiety?", "I feel hopeless",
     "  I had a good day \n", "I feel anxious", "",
     Rep("a", 1995) \o " so worthless"}

\* what EmbeddingService.embed_text may return
Embeddings == {<<12, -7, 3>>, <<>>}

\* what VectorStore.search may return
VectorAnswers ==
    {<<>>,
     <<[id |-> "v1", score |-> 900, text |-> "slow breathing calms the body"],
       [id |-> "v2", score |-> 401, text |-> ""]>>}

\* what GraphDB.find_seed_nodes may return
SeedAnswers == {<<>>, <<[id |-> "n1", type |-> "Emotion"]>>}

\* what GraphDB.expand_graph may return
ExpandAnswers ==
    {<<>>,
     <<[id |-> "g1", text |-> "worry feeds anxiety", score |-> 500]>>,
     <<[id |-> "g2", text |-> "", score |-> 500]>>}

\* what client.chat.completions.create may do: return a completion whose
\* message content is a string or None, or raise
LlmOutcomes ==
    {[ok |-> TRUE, content |-> Some("It is okay to feel this way. Try slow breathing.")],
     [ok |-> TRUE, content |-> None],
     [ok |-> FALSE, error |-> "Request timed out."]}

\* the completion carries no text
NoContent(outcome) == outcome.ok /\ outcome.content = None

BackendErrors == {"Connection error."}

\* The body of a POST /messages request; language defaults to "en"
MessageRequest(session_id, content) ==
    [session_id |-> session_id, content |-> content, language |-> "en"]

\* send_message hands the request's fields to process_message unchanged, and
\* process_message builds the run's initial state from them.
Init ==
    /\ \E msg \in Messages : request = MessageRequest("s1", msg)
    /\ state = PipelineState(request.session_id, request.content,
                             request.language, "8-12")
    /\ pc = "preprocess"
    /\ exc = None
    /\ ret = <<>>
    /\ executed = <<>>
    /\ calls = <<>>
    /\ ClassifierIdle
    /\ FusionIdle
    /\ StreamingIdle
    /\ ConcurrentIdle
    /\ GraphRagIdle

\* The history entry of a node that left state st behind
Entry(node, st) ==
    [node |-> node, should_escalate |-> st.should_escalate, skip_llm |-> st.skip_llm]

\* A node ran to its return statement: the graph follows the node's edge.
Ran(node, st, backends) ==
    /\ state' = st
    /\ pc' = NextNode(node, st)
    /\ executed' = Append(executed, Entry(node, st))
    /\ calls' = calls \o backends
    /\ UNCHANGED <<request, exc, ret, clsVars, fusVars, strVars, conVars, grVars>>

\* A backend call of the node raised: nothing catches it before process_message.
Raised(node, st, backends, e) ==
    /\ state' = st
    /\ pc' = "raised"
    /\ exc' = Some(e)
    /\ executed' = Append(executed, Entry(node, st))
    /\ calls' = calls \o backends
    /\ UNCHANGED <<request, ret, clsVars, fusVars, strVars, conVars, grVars>>

Preprocess ==
    /\ pc = "preprocess"
    /\ \E embedding \in Embeddings :
           Ran("preprocess", preprocess_node(state, embedding), <<"embedding">>)

PreprocessRaises ==
    /\ pc = "preprocess"
    /\ \E e \in BackendErrors :
           Raised("preprocess",
                  [state EXCEPT !.user_message = sanitize_input(@)],
                  <<"embedding">>, e)

SafetyPrefilter ==
    /\ pc = "safety_prefilter"
    /\ Ran("safety_prefilter", safety_prefilter_node(state), <<>>)

VectorRetriever ==
    /\ pc = "vector_retriever"
    /\ IF Truthy(state.query_embedding)
       THEN \E answer \in VectorAnswers :
                Ran("vector_retriever", vector_retriever_node(state, answer),
                    <<"vector_search">>)
       ELSE Ran("vector_retriever", vector_retriever_node(state, <<>>), <<>>)

VectorRetrieverRaises ==
    /\ pc = "vector_retriever"
    /\ Truthy(state.query_embedding)
    /\ \E e \in BackendErrors :
           Raised("vector_retriever", state, <<"vector_search">>, e)

KgMapper ==
    /\ pc = "kg_mapper"
    /\ \E seed_nodes \in SeedAnswers :
           IF seed_nodes # <<>>
           THEN \E expansion \in ExpandAnswers :
                    Ran("kg_mapper", kg_mapper_node(state, seed_nodes, expansion),
                        <<"graph_seeds", "graph_expand">>)
           ELSE Ran("kg_mapper", kg_mapper_node(state, seed_nodes, <<>>),
                    <<"graph_seeds">>)

KgMapperRaises ==
    /\ pc = "kg_mapper"
    /\ \E e \in BackendErrors :
           \/ Raised("kg_mapper", state, <<"graph_seeds">>, e)
           \/ Raised("kg_mapper", state, <<"graph_seeds", "graph_expand">>, e)

HybridScorer ==
    /\ pc = "hybrid_scorer"
    /\ Ran("hybrid_scorer", hybrid_scorer_node(state), <<>>)

ContextBuilder ==
    /\ pc = "context_builder"
    /\ Ran("context_builder", context_builder_node(state), <<>>)

LlmInvoker ==
    /\ pc = "llm_invoker"
    /\ \E outcome \in LlmOutcomes :
           /\ ~NoContent(outcome)
           /\ Ran("llm_invoker", llm_invoker_node(state, outcome), <<"generation">>)

\* The completion's content is None: the try block assigns it, the timing is
\* written, and len(state.llm_response) in the log line raises TypeError
\* outside the try block.  The state object is dropped with the exception, so
\* its llm_response (None) is not represented.
LlmInvokerRaises ==
    /\ pc = "llm_invoker"
    /\ \E outcome \in LlmOutcomes :
           /\ NoContent(outcome)
           /\ Raised("llm_invoker",
                     [state EXCEPT !.node_timings = @ \cup {"llm_invocation"}],
                     <<"generation">>, "object of type 'NoneType' has no len()")

SafetyPostfilter ==
    /\ pc = "safety_postfilter"
    /\ Ran("safety_postfilter", safety_postfilter_node(state), <<>>)

ProvenanceBuilder ==
    /\ pc = "provenance_builder"
    /\ Ran("provenance_builder", provenance_builder_node(state), <<>>)

ResponseStreamer ==
    /\ pc = "response_streamer"
    /\ Ran("response_streamer", response_streamer_node(state), <<>>)

\* graph.ainvoke returned final_state: the try branch of process_message
ReturnResponse ==
    /\ pc = "END"
    /\ ret' = ResponseOf(state)
    /\ pc' = "returned"
    /\ UNCHANGED <<request, state, exc, executed, calls, clsVars, fusVars, strVars, conVars, grVars>>

\* graph.ainvoke raised: the except branch of process_message
ReturnDegraded ==
    /\ pc = "raised"
    /\ ret' = DegradedResponse(exc[1])
    /\ pc' = "returned"
    /\ UNCHANGED <<request, state, exc, executed, calls, clsVars, fusVars, strVars, conVars, grVars>>

Next ==
    \/ Preprocess
    \/ PreprocessRaises
    \/ SafetyPrefilter
    \/ VectorRetriever
    \/ VectorRetrieverRaises
    \/ KgMapper
    \/ KgMapperRaises
    \/ HybridScorer
    \/ ContextBuilder
    \/ LlmInvoker
    \/ LlmInvokerRaises
    \/ SafetyPostfilter
    \/ ProvenanceBuilder
    \/ ResponseStreamer
    \/ ReturnResponse
    \/ ReturnDegraded

Spec == Init /\ [][Next]_vars

----------------------------------------------------------------------------
(* A run of process_message whose retrieval backends may never answer:     *)
(* vector_store.search and the graph_db calls are awaited as they are, no  *)
(* call is given a deadline, so an await that gets no answer never ends.   *)

BackendNeverAnswers ==
    /\ pc \in {"vector_retriever", "kg_mapper"}
    /\ pc = "vector_retriever" => Truthy(state.query_embedding)
    /\ pc' = "awaiting"
    /\ executed' = Append(executed, Entry(pc, state))
    /\ calls' = calls \o <<IF pc = "vector_retriever" THEN "vector_search"
                                                       ELSE "graph_seeds">>
    /\ UNCHANGED <<request, state, exc, ret, clsVars, fusVars, strVars, conVars, grVars>>

NextTimeouts ==
    \/ Next
    \/ BackendNeverAnswers

SpecTimeouts == Init /\ [][NextTimeouts]_vars

----------------------------------------------------------------------------
(* The part of the graph after safety_prefilter, taken on its own: the     *)
(* graph is entered at vector_retriever with a state whose decision flags  *)
(* should_escalate and skip_llm are drawn from both values, and runs on    *)
(* from there.  (In a run of process_message both flags are false at this  *)
(* point.)                                                                 *)

RoutingMessages ==
    {"How can I manage anxiety?", "I feel anxious", "  I had a good day \n"}

\* The state safety_prefilter leaves behind for the message
StateAfterPrefilter(msg) ==
    safety_prefilter_node(
        preprocess_node(PipelineState("s1", msg, "en", "8-12"), <<12, -7, 3>>))

InitRouting ==
    /\ \E msg \in RoutingMessages, escalate \in BOOLEAN, skip \in BOOLEAN :
           /\ request = MessageRequest("s1", msg)
           /\ state = [StateAfterPrefilter(msg) EXCEPT !.should_escalate = escalate,
                                                       !.skip_llm = skip]
    /\ pc = "vector_retriever"
    /\ exc = None
    /\ ret = <<>>
    /\ executed = <<>>
    /\ calls = <<>>
    /\ ClassifierIdle
    /\ FusionIdle
    /\ StreamingIdle
    /\ ConcurrentIdle
    /\ GraphRagIdle

NextRouting ==
    \/ VectorRetriever
    \/ VectorRetrieverRaises
    \/ KgMapper
    \/ KgMapperRaises
    \/ HybridScorer
    \/ ContextBuilder
    \/ LlmInvoker
    \/ LlmInvokerRaises
    \/ SafetyPostfilter
    \/ ProvenanceBuilder
    \/ ResponseStreamer
    \/ ReturnResponse
    \/ ReturnDegraded

SpecRouting == InitRouting /\ [][NextRouting]_vars

----------------------------------------------------------------------------
(* Concurrent runs: every call of process_message builds its own           *)
(* PipelineState and drives it through the shared compiled graph; the      *)
(* event loop interleaves the nodes of the runs in any order.  The one     *)
(* field a node changes in place is the node_timings dict, so a state      *)
(* holds a reference to its dict and the dicts live in the heap.           *)

MaxRuns == 2

RunIds == 1..MaxRuns

ConcurrentMessages == {"I want to kill myself", "I feel anxious"}

SessionIds == <<"s1", "s2", "s3", "s4">>

\* Mutant of NewDict: one dict made at class definition is the default of
\* every instance.
NewDict_SharedDefault(hp) == 1

\* field(default_factory=dict): every PipelineState gets a dict of its own
NewDict(hp) == Len(hp) + 1

\* The state with its node_timings dict read from the heap
Deref(st, hp) == [st EXCEPT !.node_timings = hp[@]]

\* What a node can do to the state it is given: return a state, or raise
Returned(st) == [st |-> st, exc |-> None]
Threw(st, e) == [st |-> st, exc |-> Some(e)]

Outcomes(node, st) ==
    CASE node = "preprocess" -> {Returned(preprocess_node(st, <<12, -7, 3>>))}
      [] node = "safety_prefilter" -> {Returned(safety_prefilter_node(st))}
      [] node = "vector_retriever" ->
            {Returned(vector_retriever_node(st, answer)) : answer \in VectorAnswers}
            \cup {Threw(st, e) : e \in BackendErrors}
      [] node = "kg_mapper" -> {Returned(kg_mapper_node(st, <<>>, <<>>))}
      [] node = "hybrid_scorer" -> {Returned(hybrid_scorer_node(st))}
      [] node = "context_builder" -> {Returned(context_builder_node(st))}
      [] node = "llm_invoker" ->
            {Returned(llm_invoker_node(st, outcome)) :
                outcome \in {o \in LlmOutcomes : ~NoContent(o)}}
      [] node = "safety_postfilter" -> {Returned(safety_postfilter_node(st))}
      [] node = "provenance_builder" -> {Returned(provenance_builder_node(st))}
      [] node = "response_streamer" -> {Returned(response_streamer_node(st))}

InitConcurrent ==
    /\ \E msgs \in [RunIds -> ConcurrentMessages] :
           runs = [r \in RunIds |->
                      [request |-> MessageRequest(SessionIds[r], msgs[r]),
                       state |-> <<>>, pc |-> "new", exc |-> None,
                       ret |-> <<>>, executed |-> <<>>]]
    /\ heap = <<>>
    /\ ClassifierIdle
    /\ FusionIdle
    /\ RunIdle
    /\ StreamingIdle
    /\ GraphRagIdle

\* process_message builds initial_state and hands it to graph.ainvoke
StartRun(r) ==
    /\ runs[r].pc = "new"
    /\ LET req == runs[r].request
           ref == NewDict(heap)
           initial_state == PipelineState(req.session_id, req.content,
                                          req.language, "8-12")
       IN  /\ heap' = IF ref > Len(heap) THEN Append(heap, {}) ELSE heap
           /\ runs' = [runs EXCEPT ![r].state =
                                       [initial_state EXCEPT !.node_timings = ref],
                                   ![r].pc = "preprocess"]
    /\ UNCHANGED <<clsVars, fusVars, runVars, strVars, grVars>>

\* the graph runs the next node of run r
StepRun(r) ==
    /\ runs[r].pc \notin {"new", "END", "raised", "returned"}
    /\ LET node == runs[r].pc
           ref == runs[r].state.node_timings
       IN  \E o \in Outcomes(node, Deref(runs[r].state, heap)) :
               /\ heap' = [heap EXCEPT ![ref] = o.st.node_timings]
               /\ runs' = [runs EXCEPT
                            ![r].state = [o.st EXCEPT !.node_timings = ref],
                            ![r].pc = IF o.exc = None THEN NextNode(node, o.st)
                                                      ELSE "raised",
                            ![r].exc = o.exc,
                            ![r].executed = Append(@, node)]
    /\ UNCHANGED <<clsVars, fusVars, runVars, strVars, grVars>>

\* the try branch of process_message, for run r
ReturnRun(r) ==
    /\ runs[r].pc = "END"
    /\ runs' = [runs EXCEPT ![r].ret = ResponseOf(Deref(runs[r].state, heap)),
                            ![r].pc = "returned"]
    /\ UNCHANGED <<heap, clsVars, fusVars, runVars, strVars, grVars>>

\* the except branch of process_message, for run r
ReturnRunDegraded(r) ==
    /\ runs[r].pc = "raised"
    /\ runs' = [runs EXCEPT ![r].ret = DegradedResponse(runs[r].exc[1]),
                            ![r].pc = "returned"]
    /\ UNCHANGED <<heap, clsVars, fusVars, runVars, strVars, grVars>>

NextConcurrent ==
    \E r \in RunIds :
        \/ StartRun(r)
        \/ StepRun(r)
        \/ ReturnRun(r)
        \/ ReturnRunDegraded(r)

SpecConcurrent == InitConcurrent /\ [][NextConcurrent]_vars

----------------------------------------------------------------------------
(* Streaming: websocket_endpoint receives a message and hands it, with     *)
(* send_token as the callback, to llm_invoke_streaming, which forwards the *)
(* content of every chunk of the backend's stream to the callback.         *)

MaxChunks == 3

\* delta.content of a chunk: text, the empty string, or None (role and stop chunks)
ChunkContents == {Some("I hear "), Some("you."), Some(""), None}

\* What iterating the stream brings next: a chunk, or an exception
Chunk(content) == [kind |-> "chunk", content |-> content]
Failure(e) == [kind |-> "raise", error |-> e]

\* The streams the backend can produce: chunks, then the end or an exception
StreamScripts ==
    LET chunks == UNION {[1..n -> {Chunk(c) : c \in ChunkContents}] : n \in 0..MaxChunks}
    IN  chunks \cup {Append(cs, Failure(e)) : cs \in chunks, e \in BackendErrors}

\* data.get("message", "") of the frames the socket receives
Prompts == {"I want to kill myself", "I feel anxious", ""}

\* f"\n[Error: {str(e)}]"
ErrorFragment(e) == "\n[Error: " \o e \o "]"

\* `if chunk.choices[0].delta.content`
HasContent(chunk) == chunk.content # None /\ chunk.content[1] # ""

\* chunk.choices[0].delta.content or ""
ContentOf(chunk) == IF chunk.content = None THEN "" ELSE chunk.content[1]

InitStreaming ==
    /\ prompt \in Prompts
    /\ stream \in StreamScripts
    /\ spc = "create"
    /\ serr = None
    /\ consumer = "open"
    /\ offered = <<>>
    /\ reply = ""
    /\ ClassifierIdle
    /\ FusionIdle
    /\ RunIdle
    /\ ConcurrentIdle
    /\ GraphRagIdle

\* await callback(token): send_token sends the token on the socket, and
\* raises when the socket is closed
Callback(token) ==
    offered' = Append(offered, [token |-> token, sent |-> consumer = "open"])

\* client.chat.completions.create(..., stream=True) returned the stream
CreateStream ==
    /\ spc = "create"
    /\ spc' = "loop"
    /\ UNCHANGED <<prompt, stream, serr, consumer, offered, reply,
                   clsVars, fusVars, runVars, conVars, grVars>>

\* client.chat.completions.create raised
CreateRaises ==
    /\ spc = "create"
    /\ \E e \in BackendErrors : serr' = Some(e)
    /\ spc' = "except"
    /\ stream' = <<>>
    /\ UNCHANGED <<prompt, consumer, offered, reply,
                   clsVars, fusVars, runVars, conVars, grVars>>

\* Mutant of ForwardChunk: a callback that raises is ignored and the loop
\* goes on with the next chunk.
ForwardChunk_KeepsForwarding ==
    /\ spc = "loop"
    /\ stream # <<>>
    /\ Head(stream).kind = "chunk"
    /\ reply' = reply \o ContentOf(Head(stream))
    /\ IF HasContent(Head(stream))
       THEN Callback(Head(stream).content[1])
       ELSE UNCHANGED offered
    /\ stream' = Tail(stream)
    /\ UNCHANGED <<spc, serr, prompt, consumer, clsVars, fusVars, runVars, conVars, grVars>>

\* one iteration of `for chunk in stream`
ForwardChunk ==
    /\ spc = "loop"
    /\ stream # <<>>
    /\ Head(stream).kind = "chunk"
    /\ reply' = reply \o ContentOf(Head(stream))
    /\ IF HasContent(Head(stream))
       THEN /\ Callback(Head(stream).content[1])
            /\ IF consumer = "open"
               THEN /\ stream' = Tail(stream)
                    /\ UNCHANGED <<spc, serr>>
               ELSE /\ stream' = <<>>
                    /\ spc' = "except"
                    /\ serr' = Some("Cannot call send once a close message has been sent.")
       ELSE /\ stream' = Tail(stream)
            /\ UNCHANGED <<spc, serr, offered>>
    /\ UNCHANGED <<prompt, consumer, clsVars, fusVars, runVars, conVars, grVars>>

\* iterating the stream raised
StreamRaises ==
    /\ spc = "loop"
    /\ stream # <<>>
    /\ Head(stream).kind = "raise"
    /\ serr' = Some(Head(stream).error)
    /\ spc' = "except"
    /\ stream' = <<>>
    /\ UNCHANGED <<prompt, consumer, offered, reply,
                   clsVars, fusVars, runVars, conVars, grVars>>

\* the stream is exhausted: llm_invoke_streaming returns
StreamEnds ==
    /\ spc = "loop"
    /\ stream = <<>>
    /\ spc' = "done"
    /\ UNCHANGED <<prompt, stream, serr, consumer, offered, reply,
                   clsVars, fusVars, runVars, conVars, grVars>>

\* the except clause: the error text goes to the callback; when the callback
\* raises here, the exception leaves llm_invoke_streaming
HandleError ==
    /\ spc = "except"
    /\ Callback(ErrorFragment(serr[1]))
    /\ spc' = IF consumer = "open" THEN "done" ELSE "raised"
    /\ UNCHANGED <<prompt, stream, serr, consumer, reply,
                   clsVars, fusVars, runVars, conVars, grVars>>

\* the peer closes the socket while the call is under way
Disconnect ==
    /\ spc \in {"create", "loop", "except"}
    /\ consumer = "open"
    /\ consumer' = "closed"
    /\ UNCHANGED <<prompt, stream, spc, serr, offered, reply,
                   clsVars, fusVars, runVars, conVars, grVars>>

NextStreaming ==
    \/ CreateStream
    \/ CreateRaises
    \/ ForwardChunk
    \/ StreamRaises
    \/ StreamEnds
    \/ HandleError
    \/ Disconnect

SpecStreaming == InitStreaming /\ [][NextStreaming]_vars

----------------------------------------------------------------------------
(* graph_rag/services/cache.py and graph_rag/core/pipeline.py *)

\* The queries of the pipeline runs
PipelineQueries == {"I want to die", "I feel anxious"}

\* _llm_key / _embed_key: the prefix and a digest of the text.  The digest is
\* modelled by the text itself: equal texts share a key, and the two prefixes
\* keep the response entries and the embedding entries apart.
cache_key(prefix, s) == prefix \o s

\* Mutant of cache_get: a failing client still yields the stored value.
cache_get_IgnoresFailure(mem, key, ok) ==
    IF \E e \in mem : e.key = key
    THEN Some((CHOOSE e \in mem : e.key = key).value)
    ELSE None

\* CacheService.get: the stored value, None when the key is absent, and None
\* when the client raises (ok = FALSE)
cache_get(mem, key, ok) ==
    IF ok /\ \E e \in mem : e.key = key
    THEN Some((CHOOSE e \in mem : e.key = key).value)
    ELSE None

\* CacheService.set: the keyspace after the call; unchanged when the client
\* raises (ok = FALSE), the exception being swallowed
cache_set(mem, key, value, ok) ==
    IF ok THEN {e \in mem : e.key # key} \cup {[key |-> key, value |-> value]}
    ELSE mem

\* safety_check: the state after the node
safety_check(st) ==
    LET q == lower(st.query)
        critical == <<"suicide", "kill myself", "end my life", "want to die">>
    IN  IF \E k \in 1..Len(critical) : Contains(q, critical[k])
        THEN [st EXCEPT !.safety_triggered = TRUE,
                        !.response = <<"I'm concerned about what you've shared. Your safety matters. Please contact the 988 Suicide & Crisis Lifeline (call/text 988) immediately. You're not alone, and help is available 24/7.">>]
        ELSE [st EXCEPT !.safety_triggered = FALSE]

\* Mutant of ShouldCache: the reply is cached whether or not it is empty.
ShouldCache_Always(response) == TRUE

\* `if response:` of generate_response, which guards cache.cache_response
ShouldCache(response) == response # ""

\* pipeline.ainvoke({"query": q}) called MaxRuns times on one cache
InitPipeline ==
    /\ pruns \in [RunIds -> {[query |-> q, pc |-> "safety",
                              state |-> [query |-> q, safety_triggered |-> FALSE,
                                         response |-> <<>>, context |-> "",
                                         sources |-> <<>>],
                              reply |-> <<>>, partial |-> "",
                              hit |-> FALSE, embedded |-> FALSE]
                             : q \in PipelineQueries}]
    /\ cachemem = {}
    /\ cachelog = {}
    /\ gstate = <<>> /\ gpc = "idle" /\ gran = <<>>
    /\ ClassifierIdle
    /\ FusionIdle
    /\ RunIdle
    /\ StreamingIdle
    /\ ConcurrentIdle

\* The history record of one cache call
CacheCall(r, op, key, ok, value) ==
    [run |-> r, op |-> op, key |-> key, ok |-> ok, value |-> value]

\* the safety node of run r, and the edge should_end_early picks
SafetyCheck(r) ==
    /\ pruns[r].pc = "safety"
    /\ LET st == safety_check(pruns[r].state)
       IN  pruns' = [pruns EXCEPT ![r].state = st,
                                  ![r].pc = IF st.safety_triggered THEN "END"
                                                                   ELSE "retrieve"]
    /\ UNCHANGED <<cachemem, cachelog, gstate, gpc, gran,
                   clsVars, fusVars, runVars, strVars, conVars>>

\* the retrieve node of run r: the embedding comes from the cache or, on a
\* miss, from the embedding model, and is then written to the cache.  The
\* context is what the vector store and the graph return for it; the except
\* clause turns an exception of a backend into an empty context, which no
\* later node distinguishes from a store that found nothing, so one context
\* value stands for every outcome of the backends.
RetrieveContext(r) ==
    /\ pruns[r].pc = "retrieve"
    /\ IF pruns[r].state.safety_triggered
       THEN /\ pruns' = [pruns EXCEPT ![r].pc = "generate"]
            /\ UNCHANGED <<cachemem, cachelog>>
       ELSE \E rok \in BOOLEAN, wok \in BOOLEAN :
                LET key == cache_key("emb:", pruns[r].state.query)
                    data == cache_get(cachemem, key, rok)
                    cached == IF data # None THEN data[1].json ELSE <<>>
                    miss == cached = <<>>
                    embedding == <<3, -1>>
                IN  /\ cachemem' = IF miss
                                   THEN cache_set(cachemem, key,
                                                  [json |-> embedding], wok)
                                   ELSE cachemem
                    /\ cachelog' = cachelog \cup {CacheCall(r, "get", key, rok, "")}
                    /\ pruns' = [pruns EXCEPT
                                  ![r].state.context = "Breathing exercises calm the body.",
                                  ![r].state.sources = <<"vector">>,
                                  ![r].embedded = miss,
                                  ![r].pc = "generate"]
    /\ UNCHANGED <<gstate, gpc, gran,
                   clsVars, fusVars, runVars, strVars, conVars>>

\* the generate node of run r up to the start of chain.astream: a cached reply
\* is returned at once, otherwise the backend begins to stream its reply
GenerateBegin(r) ==
    /\ pruns[r].pc = "generate"
    /\ IF pruns[r].state.safety_triggered
       THEN /\ pruns' = [pruns EXCEPT ![r].pc = "END"]
            /\ UNCHANGED <<cachemem, cachelog>>
       ELSE \E rok \in BOOLEAN,
               chunks \in {<<"Try slow ", "breathing.">>, <<>>} :
                LET key == cache_key("llm:", pruns[r].state.query)
                    cached == cache_get(cachemem, key, rok)
                IN  /\ cachelog' = cachelog \cup {CacheCall(r, "get", key, rok, "")}
                    /\ pruns' = IF cached # None /\ cached[1] # ""
                                THEN [pruns EXCEPT ![r].state.response = <<cached[1]>>,
                                                   ![r].hit = TRUE,
                                                   ![r].pc = "END"]
                                ELSE [pruns EXCEPT ![r].reply = chunks,
                                                   ![r].pc = "streaming"]
                    /\ UNCHANGED cachemem
    /\ UNCHANGED <<gstate, gpc, gran,
                   clsVars, fusVars, runVars, strVars, conVars>>

\* one iteration of `async for chunk in chain.astream(...)`
StreamChunk(r) ==
    /\ pruns[r].pc = "streaming"
    /\ pruns[r].reply # <<>>
    /\ pruns' = [pruns EXCEPT ![r].partial = @ \o Head(pruns[r].reply),
                              ![r].reply = Tail(@)]
    /\ UNCHANGED <<cachemem, cachelog, gstate, gpc, gran,
                   clsVars, fusVars, runVars, strVars, conVars>>

\* the stream raised: the except branch of generate_response
GenerateFails(r) ==
    /\ pruns[r].pc = "streaming"
    /\ pruns' = [pruns EXCEPT
                  ![r].state.response = <<"I apologize, but I'm having trouble responding. If you need support, please call 988 for the Crisis Lifeline.">>,
                  ![r].pc = "END"]
    /\ UNCHANGED <<cachemem, cachelog, gstate, gpc, gran,
                   clsVars, fusVars, runVars, strVars, conVars>>

\* the stream ended: the reply is cached if it is not empty, and returned
GenerateEnd(r) ==
    /\ pruns[r].pc = "streaming"
    /\ pruns[r].reply = <<>>
    /\ LET response == pruns[r].partial
           key == cache_key("llm:", pruns[r].state.query)
       IN  /\ IF ShouldCache(response)
              THEN \E wok \in BOOLEAN :
                       /\ cachemem' = cache_set(cachemem, key, response, wok)
                       /\ cachelog' = cachelog
                                      \cup {CacheCall(r, "set", key, wok, response)}
              ELSE UNCHANGED <<cachemem, cachelog>>
           /\ pruns' = [pruns EXCEPT ![r].state.response = <<response>>,
                                     ![r].pc = "END"]
    /\ UNCHANGED <<gstate, gpc, gran,
                   clsVars, fusVars, runVars, strVars, conVars>>

NextPipeline ==
    \E r \in RunIds :
        \/ SafetyCheck(r)
        \/ RetrieveContext(r)
        \/ GenerateBegin(r)
        \/ StreamChunk(r)
        \/ GenerateFails(r)
        \/ GenerateEnd(r)

SpecPipeline == InitPipeline /\ [][NextPipeline]_vars

----------------------------------------------------------------------------
(* graph_rag/graph/nodes.py and graph_rag/graph/graph.py *)

\* safety_prefilter: the state after the node.  The node returns an update;
\* GraphState merges `response` with operator.add, so the update's list is
\* appended to the state's, and the other keys are overwritten.
safety_prefilter(st) ==
    LET res == analyze_message(st.query)
    IN  IF res.requires_escalation
           /\ res.safe_response # None /\ res.safe_response[1] # ""
        THEN [st EXCEPT !.response = @ \o <<res.safe_response[1]>>,
                        !.safety_escalated = TRUE,
                        !.risk_level = Some(res.risk_level)]
        ELSE [st EXCEPT !.safety_escalated = FALSE,
                        !.risk_level = Some(res.risk_level)]

\* Mutant of check_safety_escalation: the two targets are swapped.
check_safety_escalation_TargetsSwapped(st) ==
    IF st.safety_escalated THEN "continue" ELSE "end"

\* check_safety_escalation: the edge taken after safety_prefilter
check_safety_escalation(st) ==
    IF st.safety_escalated THEN "end" ELSE "continue"

\* invoke_graph(query): the state the graph starts from
InitGraph ==
    /\ \E q \in Texts :
           gstate = [query |-> q, conversation_history |-> <<>>,
                     response |-> <<>>, safety_escalated |-> FALSE,
                     risk_level |-> None, context |-> "", sources |-> <<>>]
    /\ gpc = "safety_prefilter"
    /\ gran = <<>>
    /\ pruns = <<>> /\ cachemem = {} /\ cachelog = {}
    /\ ClassifierIdle
    /\ FusionIdle
    /\ RunIdle
    /\ StreamingIdle
    /\ ConcurrentIdle

\* the entry node and its conditional edge
GraphSafetyPrefilter ==
    /\ gpc = "safety_prefilter"
    /\ gstate' = safety_prefilter(gstate)
    /\ gpc' = IF check_safety_escalation(gstate') = "end" THEN "END"
                                                           ELSE "rewrite_query"
    /\ gran' = Append(gran, "safety_prefilter")
    /\ UNCHANGED <<pruns, cachemem, cachelog,
                   clsVars, fusVars, runVars, strVars, conVars>>

\* rewrite_query returns the query as it is
RewriteQuery ==
    /\ gpc = "rewrite_query"
    /\ gstate' = [gstate EXCEPT !.query = gstate.query]
    /\ gpc' = "vectorstore_retriever"
    /\ gran' = Append(gran, "rewrite_query")
    /\ UNCHANGED <<pruns, cachemem, cachelog,
                   clsVars, fusVars, runVars, strVars, conVars>>

\* retrieve_from_vectorstore: the documents found are appended to the
\* context; an exception of the embedding model or of Weaviate ends the run
RetrieveFromVectorstore ==
    /\ gpc = "vectorstore_retriever"
    /\ gran' = Append(gran, "vectorstore_retriever")
    /\ \/ \E docs \in {<<>>, <<"Breathing slows the pulse.">>} :
              /\ gstate' = [gstate EXCEPT
                              !.context = @ \o "\n\n--- Vector Store Documents ---\n"
                                            \o JoinLines(docs),
                              !.sources = docs]
              /\ gpc' = "graph_retriever"
       \/ /\ gpc' = "raised"
          /\ UNCHANGED gstate
    /\ UNCHANGED <<pruns, cachemem, cachelog,
                   clsVars, fusVars, runVars, strVars, conVars>>

\* retrieve_from_graph appends its placeholder text to the context
RetrieveFromGraph ==
    /\ gpc = "graph_retriever"
    /\ gstate' = [gstate EXCEPT
                    !.context = @ \o "\n\n--- Knowledge Graph Data ---\n"
                                  \o "Placeholder for data retrieved from Neo4j."]
    /\ gpc' = "generate"
    /\ gran' = Append(gran, "graph_retriever")
    /\ UNCHANGED <<pruns, cachemem, cachelog,
                   clsVars, fusVars, runVars, strVars, conVars>>

\* generate_response: the streamed reply is appended to the response list
\* and should_continue ends the run; an exception of the chain ends it too
GraphGenerateResponse ==
    /\ gpc = "generate"
    /\ gran' = Append(gran, "generate")
    /\ \/ \E final_response \in {"Try slow breathing.", ""} :
              /\ gstate' = [gstate EXCEPT !.response = @ \o <<final_response>>]
              /\ gpc' = "END"
       \/ /\ gpc' = "raised"
          /\ UNCHANGED gstate
    /\ UNCHANGED <<pruns, cachemem, cachelog,
                   clsVars, fusVars, runVars, strVars, conVars>>

NextGraph ==
    \/ GraphSafetyPrefilter
    \/ RewriteQuery
    \/ RetrieveFromVectorstore
    \/ RetrieveFromGraph
    \/ GraphGenerateResponse

SpecGraph == InitGraph /\ [][NextGraph]_vars

----------------------------------------------------------------------------
(* Properties of the classifiers (SpecClassifier) *)

\* The text matches a critical / high keyword of core/settings.py (as check_input tests it)
MatchesCriticalKeyword(s) == AnyKeyword(CRITICAL_KEYWORDS, lower(s))
MatchesHighKeyword(s) == AnyKeyword(HIGH_RISK_KEYWORDS, lower(s))

\* The text matches a pattern of the given tier of graph_rag's service
MatchesTier(patterns, s) == \E k \in 1..Len(patterns) : Search(patterns[k], s)

\* C3: every input that matches a critical-tier pattern is classified critical
\* with the escalation flag set, by check_input and by analyze_message,
\* whatever other tiers match and wherever the matches stand in the text.
C3_CriticalAlwaysWins ==
    /\ (check_result # None /\ MatchesCriticalKeyword(text)) =>
           /\ check_result[1].level = "critical"
           /\ check_result[1].should_escalate = TRUE
    /\ (analysis # None /\ MatchesTier(CRITICAL_PATTERNS, text)) =>
           /\ analysis[1].risk_level = "critical"
           /\ analysis[1].requires_escalation = TRUE

\* A text matching the critical tier and a lower tier of both classifiers,
\* the lower-tier match standing first in the text, has been classified.
C3_Witness ==
    /\ check_result # None /\ analysis # None
    /\ text = "so hopeless I want to kill myself"
    /\ MatchesCriticalKeyword(text) /\ MatchesHighKeyword(text)
    /\ MatchesTier(CRITICAL_PATTERNS, text) /\ MatchesTier(HIGH_PATTERNS, text)

\* C4: an input that matches no configured pattern (the empty string included)
\* is classified safe without escalation; the score is the default floor 0.1
\* of check_input and 0 of analyze_message.
C4_UnmatchedIsSafe ==
    /\ (check_result # None /\ ~MatchesCriticalKeyword(text)
                            /\ ~MatchesHighKeyword(text)) =>
           check_result[1] = [level |-> "safe", score |-> 10, should_escalate |-> FALSE]
    /\ (analysis # None /\ ~MatchesTier(CRITICAL_PATTERNS, text)
                        /\ ~MatchesTier(HIGH_PATTERNS, text)
                        /\ ~MatchesTier(MODERATE_PATTERNS, text)) =>
           /\ analysis[1].risk_level = "safe"
           /\ analysis[1].risk_score = 0
           /\ analysis[1].requires_escalation = FALSE
           /\ analysis[1].safe_response = None
           /\ analysis[1].triggered_keywords = <<>>

\* The empty string has been classified by both classifiers.
C4_Witness ==
    /\ text = ""
    /\ check_result # None /\ check_result[1].level = "safe"
    /\ analysis # None /\ analysis[1].risk_level = "safe"

\* C5: a classifier escalates exactly at the levels critical and high, an
\* escalating result carries the canned safe response of its tier, and a
\* result of any other level carries neither escalation nor safe response.
C5_EscalationExactlyAtCriticalAndHigh ==
    /\ analysis # None =>
           LET a == analysis[1] IN
           /\ a.requires_escalation <=> a.risk_level \in {"critical", "high"}
           /\ a.risk_level = "critical" => a.safe_response = Some(CRISIS_RESPONSE)
           /\ a.risk_level = "high" => a.safe_response = Some(HIGH_RISK_RESPONSE)
           /\ ~a.requires_escalation => a.safe_response = None
    /\ check_result # None =>
           LET r == check_result[1] IN
           /\ r.should_escalate <=> r.level \in {"critical", "high", "high_risk"}
           /\ r.should_escalate =>
                  /\ "safe_response" \in DOMAIN r
                  /\ r.level = "critical" => r.safe_response = Some(CRISIS_RESPONSE)
                  /\ r.level \in {"high", "high_risk"} =>
                         r.safe_response = Some(HIGH_RISK_RESPONSE)
           /\ ~r.should_escalate =>
                  ("safe_response" \in DOMAIN r => r.safe_response = None)

\* The part of C5 that analyze_message satisfies on its own.
C5_AnalyzeMessagePart ==
    analysis # None =>
        LET a == analysis[1] IN
        /\ a.requires_escalation <=> a.risk_level \in {"critical", "high"}
        /\ a.risk_level = "critical" => a.safe_response = Some(CRISIS_RESPONSE)
        /\ a.risk_level = "high" => a.safe_response = Some(HIGH_RISK_RESPONSE)
        /\ ~a.requires_escalation => a.safe_response = None

----------------------------------------------------------------------------
(* Properties of fusion and context assembly (SpecFusion) *)

Fused == fpc \in {"context_builder", "provenance_builder", "done"}
ContextBuilt == fpc \in {"provenance_builder", "done"}

\* The weighted items in backend order, as the claim states them: vector hits
\* first at 0.6 x score, then graph hits at 0.3 x score, 0.5 for a missing score
WeightedInBackendOrder ==
    LET v == fstate.vector_results
        g == fstate.graph_results
    IN [i \in 1..(Len(v) + Len(g)) |->
           IF i <= Len(v)
           THEN [id |-> v[i].id, text |-> v[i].text, type |-> "vector",
                 score |-> 6 * v[i].score]
           ELSE LET r == g[i - Len(v)] IN
                [id |-> r.id, text |-> IF "text" \in DOMAIN r THEN r.text ELSE "",
                 type |-> "graph",
                 score |-> 3 * (IF "score" \in DOMAIN r THEN r.score ELSE 500)]]

\* The items of list l whose weighted score is sc, in the order of l
WithScore(l, sc) ==
    LET Test(x) == x.score = sc IN SelectSeq(l, Test)

\* C6: hybrid_results is ordered non-increasing by weighted score, items of
\* equal weighted score keep their backend order (vector before graph), and
\* v1 = 0.9, v2 = 0.4, g1 = 0.6 fuse to v1, v2, g1.
C6_FusionSortedAndStable ==
    Fused =>
        LET h == fstate.hybrid_results
            w == WeightedInBackendOrder
        IN /\ Len(h) = Len(w)
           /\ \A i \in 1..Len(h) : \A j \in 1..Len(h) :
                  i < j => h[i].score >= h[j].score
           /\ \A k \in 1..Len(w) : WithScore(h, w[k].score) = WithScore(w, w[k].score)
           /\ ( /\ Len(fstate.vector_results) = 2 /\ Len(fstate.graph_results) = 1
                /\ fstate.vector_results[1].id = "v1"
                /\ fstate.vector_results[1].score = 900
                /\ fstate.vector_results[2].id = "v2"
                /\ fstate.vector_results[2].score = 400
                /\ fstate.graph_results[1].id = "g1"
                /\ Get(fstate.graph_results[1], "score", 0) = 600 )
              => [i \in 1..3 |-> h[i].id] = <<"v1", "v2", "g1">>

\* A vector hit (0.6 x 0.3) and a graph hit (0.3 x 0.6) of equal weighted
\* score have been fused behind a higher-scored graph-side neighbour.
C6_Witness ==
    /\ Fused
    /\ Len(fstate.hybrid_results) = 3
    /\ fstate.hybrid_results[1].score > fstate.hybrid_results[2].score
    /\ fstate.hybrid_results[2].score = fstate.hybrid_results[3].score
    /\ fstate.hybrid_results[2].type = "vector"
    /\ fstate.hybrid_results[3].type = "graph"

\* C7: no two items of the fused list have the same id.
C7_FusedIdsDistinct ==
    Fused =>
        \A i \in 1..Len(fstate.hybrid_results) :
            \A j \in 1..Len(fstate.hybrid_results) :
                i # j => fstate.hybrid_results[i].id # fstate.hybrid_results[j].id

\* C8: the context string is never longer than MAX_CONTEXT_TOKENS.
C8_ContextWithinCeiling ==
    ContextBuilt => Len(fstate.context) <= MAX_CONTEXT_TOKENS

----------------------------------------------------------------------------
(* Properties of a run of process_message (Spec) *)

\* the nodes entered so far
Nodes == {executed[k].node : k \in 1..Len(executed)}

\* safety_prefilter has run and left should_escalate true
PrefilterEscalated ==
    \E k \in 1..Len(executed) :
        executed[k].node = "safety_prefilter" /\ executed[k].should_escalate

\* C1: once safety_prefilter has set should_escalate, the run ends right after
\* that node: no later node is entered and the generation backend is not called.
C1_EscalationEndsRun ==
    \A k \in 1..Len(executed) :
        (executed[k].node = "safety_prefilter" /\ executed[k].should_escalate) =>
            /\ k = Len(executed)
            /\ pc \in {"END", "returned"}
            /\ "generation" \notin {calls[c] : c \in 1..Len(calls)}

\* A run whose prefilter escalated has returned.
C1_Witness ==
    /\ pc = "returned"
    /\ PrefilterEscalated
    /\ state.user_message = "I want to kill myself"

\* a reference to a crisis line, as the canned responses of the repository give it
HasCrisisHotline(s) ==
    \/ Contains(s, "988")
    \/ Contains(s, "741741")
    \/ Contains(lower(s), "lifeline")
    \/ Contains(lower(s), "hotline")
    \/ Contains(lower(s), "helpline")

\* C2: a response returned with escalated = true after the prefilter classified
\* the input critical has safety_level critical and carries the fixed safety
\* message with a crisis-hotline reference; the reply is not empty.
C2_EscalatedReplyIsSafetyMessage ==
    (pc = "returned" /\ PrefilterEscalated /\ ret.escalated) =>
        /\ ret.safety_level = "critical"
        /\ ret.response # ""
        /\ HasCrisisHotline(ret.response)

\* The part of C2 the code satisfies: level and flag of the escalated response.
C2_EscalatedLevelPart ==
    (pc = "returned" /\ PrefilterEscalated /\ ret.escalated) =>
        ret.safety_level = "critical"

\* item i of hybrid_results stands as a line of the context string
InContext(st, i) ==
    Contains(st.context \o "\n",
             "\n" \o ContextLine(i, st.hybrid_results[i]) \o "\n")

\* C9: after provenance_builder, every provenance entry refers to a fused item
\* whose text is part of the context string built by context_builder.
C9_ProvenanceWithinContext ==
    "provenance_builder" \in Nodes =>
        \A k \in 1..Len(state.provenance) :
            \E i \in 1..Len(state.hybrid_results) :
                /\ state.hybrid_results[i].id = state.provenance[k].source_id
                /\ state.hybrid_results[i].type = state.provenance[k].type
                /\ InContext(state, i)

\* the keys every response is to carry
ResponseKeys ==
    {"response", "safety_level", "safety_score", "provenance", "escalated", "timings"}

\* C10: every value process_message returns holds reply, risk level, risk
\* score, provenance, escalation flag and per-stage timings.
C10_ResponseComplete ==
    pc = "returned" => ResponseKeys \subseteq DOMAIN ret

\* The part of C10 the code satisfies: a response returned by the try branch.
C10_TryBranchComplete ==
    (pc = "returned" /\ exc = None) => ResponseKeys \subseteq DOMAIN ret

----------------------------------------------------------------------------
(* Properties of the failure paths of a run (Spec) *)

\* The node entered last
LastNode == executed[Len(executed)].node

\* A node raised an exception it does not handle itself
StageRaised == exc # None

\* C11: when a node raises an exception it does not handle, process_message
\* does not raise: the only step left is the return of the except branch, and
\* the value returned is the fixed degraded response (apology text,
\* safety_level "error", empty provenance).
C11_UnhandledExceptionDegrades ==
    /\ StageRaised => pc \in {"raised", "returned"}
    /\ (StageRaised /\ pc = "returned") =>
           /\ ret.response = "I apologize, but I'm having trouble right now. Please try again."
           /\ ret.safety_level = "error"
           /\ ret.provenance = <<>>

\* process_message has returned from a run in which kg_mapper raised.
C11_Witness ==
    /\ pc = "returned" /\ StageRaised
    /\ LastNode = "kg_mapper"
    /\ ret.safety_level = "error"

\* llm_invoker has run and its call of the generation backend failed
GenerationFailed ==
    /\ "llm_invoker" \in Nodes
    /\ state.error # None

\* The text points to a crisis resource
HasCrisisResource(s) ==
    \/ HasCrisisHotline(s)
    \/ Contains(lower(s), "crisis")
    \/ Contains(lower(s), "emergency")
    \/ Contains(s, "911")
    \/ Contains(s, "112")

\* C12: when the generation call fails inside llm_invoker_node, the node does
\* not raise, llm_response is the fixed apology and that apology points to a
\* crisis resource, the error is recorded in state.error, and the run goes on
\* through safety_postfilter, provenance_builder and response_streamer.
C12_GenerationFailureApology ==
    GenerationFailed =>
        /\ ~StageRaised
        /\ state.error # None
        /\ state.llm_response # ""
        /\ HasCrisisResource(state.llm_response)
        /\ pc \in {"safety_postfilter", "provenance_builder",
                   "response_streamer", "END", "returned"}

\* The part of C12 the code satisfies: no raise, the error recorded, the
\* apology in place, and the run continuing through the remaining nodes.
C12_GenerationFailureContinues ==
    GenerationFailed =>
        /\ ~StageRaised
        /\ state.llm_response = LLM_APOLOGY
        /\ pc \in {"safety_postfilter", "provenance_builder",
                   "response_streamer", "END", "returned"}
        /\ pc \in {"END", "returned"} => LastNode = "response_streamer"

\* C13: when the generation backend fails, the value process_message returns
\* has the apology text as its reply and a populated error field.
C13_ReturnedErrorPopulated ==
    (pc = "returned" /\ GenerationFailed) =>
        /\ ret.response = LLM_APOLOGY
        /\ "error" \in DOMAIN ret
        /\ ret.error # None
        /\ ret.error # ""

\* The part of C13 the code satisfies: the reply is the apology text.
C13_ReturnedApology ==
    (pc = "returned" /\ GenerationFailed) => ret.response = LLM_APOLOGY

\* The vector-search or the graph backend failed during the run
RetrievalFailed ==
    /\ StageRaised
    /\ LastNode \in {"vector_retriever", "kg_mapper"}

\* C14: when the vector-search or the graph backend fails, the run still
\* reaches hybrid_scorer with an empty list for the failed backend and
\* returns a normal response, not the degraded error response.
C14_RetrievalFailureTolerated ==
    (pc = "returned" /\ RetrievalFailed) =>
        /\ "hybrid_scorer" \in Nodes
        /\ ret.safety_level # "error"
        /\ (LastNode = "vector_retriever" => state.vector_results = <<>>)
        /\ (LastNode = "kg_mapper" => state.graph_results = <<>>)

\* The part of C14 the code satisfies: when both retrieval nodes return,
\* with empty lists or not, hybrid_scorer runs and the run goes on.
C14_EmptyAnswerTolerated ==
    (executed # <<>> /\ LastNode = "hybrid_scorer") =>
        /\ ~StageRaised
        /\ pc = "context_builder"

\* The input send_message must refuse: empty, or longer than the maximum
Rejectable(content) == content = "" \/ Len(content) > MAX_MESSAGE_LENGTH

\* C16: for empty text and for text longer than MAX_MESSAGE_LENGTH sent
\* through send_message, process_message runs no node at all.
C16_InvalidInputRunsNoStage ==
    Rejectable(request.content) => (executed = <<>> /\ calls = <<>>)

\* C18: no external backend is called before safety_prefilter has classified
\* the input, so no backend failure ends a run before the input is screened.
C18_NoBackendBeforePrefilter ==
    /\ "safety_prefilter" \notin Nodes => calls = <<>>
    /\ pc = "returned" => "safety_prefilter" \in Nodes

\* The part of C18 the code satisfies: the retrieval and generation backends
\* are called only after safety_prefilter.
C18_RetrievalAfterPrefilter ==
    "safety_prefilter" \notin Nodes =>
        \A c \in 1..Len(calls) : calls[c] = "embedding"

\* The nodes of the graph in the order of its edges
StageOrder ==
    <<"preprocess", "safety_prefilter", "vector_retriever", "kg_mapper",
      "hybrid_scorer", "context_builder", "llm_invoker", "safety_postfilter",
      "provenance_builder", "response_streamer">>

\* The nodes entered so far are the first nodes of the order, each once
RanInOrder ==
    /\ Len(executed) <= Len(StageOrder)
    /\ \A k \in 1..Len(executed) : executed[k].node = StageOrder[k]

\* The run is over: the graph reached END or an exception left it
RunEnded == pc \in {"END", "raised", "returned"}

\* C19: the nodes run in the order of the graph, each at most once and only
\* after all its predecessors, and a run ends early only directly after
\* safety_prefilter or directly after context_builder.
C19_OrderAndEarlyEnds ==
    /\ RanInOrder
    /\ RunEnded =>
           LastNode \in {"safety_prefilter", "context_builder", "response_streamer"}

\* C19 as the code has it: the nodes run in the order of the graph, each at
\* most once and only after all its predecessors; a run in which no node
\* raises ends early only directly after safety_prefilter or directly after
\* context_builder, and a run in which a node raises ends at that node with
\* the degraded response.
C19_OrderAndEarlyEndsOrRaise ==
    /\ RanInOrder
    /\ (RunEnded /\ ~StageRaised) =>
           LastNode \in {"safety_prefilter", "context_builder", "response_streamer"}
    /\ (RunEnded /\ StageRaised) =>
           /\ pc \in {"raised", "returned"}
           /\ pc = "returned" => ret.safety_level = "error"

\* A run in which no node raised has ended right after safety_prefilter.
C19_Witness ==
    /\ pc = "returned"
    /\ Len(executed) = 2
    /\ LastNode = "safety_prefilter"
    /\ ~StageRaised

----------------------------------------------------------------------------
(* Properties of llm_invoke_streaming (SpecStreaming) *)

RECURSIVE JoinTokens(_)
\* The concatenation, in order, of the fragments the callback was called with
JoinTokens(os) ==
    IF os = <<>> THEN "" ELSE JoinTokens(SubSeq(os, 1, Len(os) - 1)) \o os[Len(os)].token

\* llm_invoke_streaming is over: it returned, or an exception left it
StreamingOver == spc \in {"done", "raised"}

\* C15: the concatenation, in order, of the fragments passed to the callback
\* is the reply text the backend produced, whatever chunks the backend sends:
\* nothing twice, and nothing that is not reply text.
C15_FragmentsJoinToReply ==
    StreamingOver => JoinTokens(offered) = reply

\* The part of C15 the code satisfies: a stream that ends without an
\* exception is forwarded fragment by fragment.
C15_CleanStreamJoinsToReply ==
    (StreamingOver /\ serr = None) => JoinTokens(offered) = reply

----------------------------------------------------------------------------
(* Properties of the graph after safety_prefilter (SpecRouting) *)

\* C20: when skip_llm is true as context_builder finishes, the run ends
\* there: llm_invoker, safety_postfilter, provenance_builder and
\* response_streamer are not entered and the generation backend is not called.
C20_SkipEndsRun ==
    \A k \in 1..Len(executed) :
        (executed[k].node = "context_builder" /\ executed[k].skip_llm) =>
            /\ k = Len(executed)
            /\ pc \in {"END", "returned"}
            /\ Nodes \cap {"llm_invoker", "safety_postfilter",
                           "provenance_builder", "response_streamer"} = {}
            /\ "generation" \notin {calls[c] : c \in 1..Len(calls)}

\* The graph has returned from a run that context_builder left with skip_llm set.
C20_Witness ==
    /\ pc = "returned"
    /\ executed # <<>>
    /\ LastNode = "context_builder"
    /\ state.skip_llm

----------------------------------------------------------------------------
(* Properties of concurrent runs (SpecConcurrent) *)

RECURSIVE ResultsFrom(_, _)
\* The responses a run can return when the graph is at the node with the
\* state, and no other run exists
ResultsFrom(node, st) ==
    IF node = "END"
    THEN {ResponseOf(st)}
    ELSE UNION {IF o.exc = None
                THEN ResultsFrom(NextNode(node, o.st), o.st)
                ELSE {DegradedResponse(o.exc[1])} : o \in Outcomes(node, st)}

\* The responses process_message can return for the request when it runs alone
SoloResults(req) ==
    ResultsFrom("preprocess",
                PipelineState(req.session_id, req.content, req.language, "8-12"))

\* SoloResults of every request a concurrent run can carry
SoloTable ==
    [r \in RunIds |->
        [msg \in ConcurrentMessages |->
            SoloResults(MessageRequest(SessionIds[r], msg))]]

\* C17: whatever the interleaving of concurrent runs, the response a run
\* returns (reply, risk level, risk score, escalation flag, provenance,
\* timings) is one the run returns for its own input when it runs alone, and
\* the state it holds is built from its own request.
C17_RunsIsolated ==
    \A r \in RunIds :
        /\ runs[r].pc # "new" => runs[r].state.session_id = runs[r].request.session_id
        /\ runs[r].request = MessageRequest(SessionIds[r], runs[r].request.content)
        /\ runs[r].pc = "returned" =>
               runs[r].ret \in SoloTable[r][runs[r].request.content]

\* Two runs with different inputs have both returned, one escalated after two
\* nodes and the other after the whole pipeline.
C17_Witness ==
    \E r, q \in RunIds :
        /\ runs[r].pc = "returned" /\ runs[q].pc = "returned"
        /\ runs[r].ret.escalated
        /\ runs[q].exc = None /\ ~runs[q].ret.escalated
        /\ Len(runs[q].executed) = 10

----------------------------------------------------------------------------
(* Properties of the decision flags of a run (Spec) *)

\* The backends called so far
Called == {calls[c] : c \in 1..Len(calls)}

\* C21: skip_llm always equals the should_escalate value safety_prefilter
\* set, so it is false wherever context_builder has run: the skip edge after
\* context_builder is never taken, and a run that reaches context_builder
\* goes on to llm_invoker and calls the generation backend, also when both
\* retrieval lists are empty.
C21_SkipEdgeNeverTaken ==
    /\ \A k \in 2..Len(executed) :
           executed[k].skip_llm = executed[2].should_escalate
    /\ "context_builder" \in Nodes =>
           /\ ~state.skip_llm
           /\ LastNode = "context_builder" => pc = "llm_invoker"
           /\ LastNode # "context_builder" =>
                  ("llm_invoker" \in Nodes /\ "generation" \in Called)

\* A run with both retrieval lists empty has passed context_builder, called
\* the generation backend and returned.
C21_Witness ==
    /\ pc = "returned"
    /\ ~StageRaised
    /\ state.vector_results = <<>> /\ state.graph_results = <<>>
    /\ "context_builder" \in Nodes
    /\ "generation" \in Called

\* A node is about to run, or has just run
AtNode == pc \notin {"END", "raised", "returned"}

\* C22: no stage after safety_prefilter changes skip_llm, none changes
\* should_escalate from true to false, and the only change of a decision
\* flag is safety_postfilter setting should_escalate to true.
C22_LaterStagesKeepFlags ==
    [][(AtNode /\ pc \notin {"preprocess", "safety_prefilter"}) =>
          /\ state'.skip_llm = state.skip_llm
          /\ state.should_escalate => state'.should_escalate
          /\ state'.should_escalate # state.should_escalate =>
                 (pc = "safety_postfilter" /\ state'.should_escalate)]_vars

\* A run entered with should_escalate set has gone through every later node
\* and returned with the flag still set.
C22_Witness ==
    /\ pc = "returned"
    /\ LastNode = "response_streamer"
    /\ state.should_escalate
    /\ ~state.skip_llm
    /\ ret.escalated

----------------------------------------------------------------------------
(* Properties of the reply of a run (Spec) *)

\* C23: safety_postfilter_node leaves llm_response as it is, as do the nodes
\* after it, and process_message returns it as the reply: the caller gets
\* the reply llm_invoker produced.
C23_PostfilterKeepsReply ==
    [][/\ pc \in {"safety_postfilter", "provenance_builder", "response_streamer"} =>
              state'.llm_response = state.llm_response
       /\ (pc = "END" /\ pc' = "returned") => ret'.response = state.llm_response]_vars

\* A run classified high_risk has returned the generated reply after the
\* postfilter ran.
C23_Witness ==
    /\ pc = "returned"
    /\ "safety_postfilter" \in Nodes
    /\ ret.safety_level = "high_risk"
    /\ ret.response = "It is okay to feel this way. Try slow breathing."

----------------------------------------------------------------------------
(* Properties of a run whose backends may not answer (SpecTimeouts) *)

\* C24: every call of a retrieval or generation backend is abandoned after
\* its timeout, so a run that waits for a backend that never answers can
\* still take a step towards its response: no run is stuck before it returns.
C24_WaitingRunGoesOn ==
    pc = "awaiting" => ENABLED NextTimeouts

\* The part of C24 the code satisfies: a run whose backends all answered or
\* raised has a response to return.
C24_AnsweredRunReturns ==
    pc \in {"END", "raised"} => ENABLED (ReturnResponse \/ ReturnDegraded)

----------------------------------------------------------------------------
(* Properties of levels and scores (SpecClassifier, Spec) *)

RiskLevels == {"safe", "low", "moderate", "high", "critical"}

\* The level the fixed thresholds assign to a score in hundredths
ThresholdLevel(score) ==
    IF score >= 90 THEN "critical"
    ELSE IF score >= 70 THEN "high"
    ELSE IF score >= 40 THEN "moderate"
    ELSE IF score > 0 THEN "low"
    ELSE "safe"

\* C25: the level a classifier reports is one of safe, low, moderate, high,
\* critical and is the level the fixed thresholds assign to the reported
\* score, and the score lies in [0, 1].
C25_LevelMatchesThresholds ==
    /\ analysis # None =>
           /\ analysis[1].risk_score \in 0..100
           /\ analysis[1].risk_level \in RiskLevels
           /\ analysis[1].risk_level = ThresholdLevel(analysis[1].risk_score)
    /\ check_result # None =>
           /\ check_result[1].score \in 0..100
           /\ check_result[1].level \in RiskLevels
           /\ check_result[1].level = ThresholdLevel(check_result[1].score)

\* The part of C25 the code satisfies: analyze_message, and the range of the
\* score check_input reports.
C25_AnalyzeMessagePart ==
    /\ analysis # None =>
           /\ analysis[1].risk_score \in 0..100
           /\ analysis[1].risk_level \in RiskLevels
           /\ analysis[1].risk_level = ThresholdLevel(analysis[1].risk_score)
    /\ check_result # None => check_result[1].score \in 0..100

\* C25 in a run: safety_level and safety_score of every state of a run in
\* which no node raised. Violated like the classifier part.
C25_RunLevelMatchesThresholds ==
    (state # <<>> /\ exc = None) =>
        /\ state.safety_score \in 0..100
        /\ state.safety_level \in RiskLevels
        /\ state.safety_level = ThresholdLevel(state.safety_score)

----------------------------------------------------------------------------
(* Properties of the streaming path under disconnects (SpecStreaming) *)

\* The callback has raised on the k-th fragment it was called with
CallbackFailedAt(k) == k \in 1..Len(offered) /\ ~offered[k].sent

\* C26: once the callback has raised, no further fragment of the backend is
\* passed to it (the one call that can follow carries the error text of the
\* except clause), the stream is not read any more, and
\* llm_invoke_streaming ends.
C26_StopsForwardingOnDisconnect ==
    \A k \in 1..Len(offered) :
        CallbackFailedAt(k) =>
            /\ \A j \in (k + 1)..Len(offered) :
                   /\ j = k + 1
                   /\ offered[j].token = ErrorFragment(serr[1])
            /\ stream = <<>>
            /\ spc \in {"except", "raised"}
            /\ spc = "except" => ENABLED HandleError

\* The peer went away after one fragment was delivered: the next fragment
\* failed, and the call ended with the exception of the except clause.
C26_Witness ==
    /\ spc = "raised"
    /\ Len(offered) = 3
    /\ offered[1].sent /\ offered[1].token = "I hear "
    /\ CallbackFailedAt(2) /\ offered[2].token = "you."
    /\ CallbackFailedAt(3)

\* C27: on the streaming path the generation backend is not invoked for a
\* message the risk classifier escalates, and no generated fragment is
\* passed to the callback for it.
C27_StreamingPathScreens ==
    check_input(prompt).should_escalate =>
        /\ spc \in {"idle", "create"}
        /\ offered = <<>>

----------------------------------------------------------------------------
(* Properties of the graph_rag pipeline and its cache (SpecPipeline) *)

\* The key is one of the response cache / of the embedding cache
IsLlmKey(key) == Len(key) >= 4 /\ SubSeq(key, 1, 4) = "llm:"
IsEmbedKey(key) == Len(key) >= 4 /\ SubSeq(key, 1, 4) = "emb:"

\* The cache calls run r has made
CallsOf(r) == {e \in cachelog : e.run = r}

\* The two fixed texts of the pipeline: the crisis message and the apology
CannedTexts ==
    {"I'm concerned about what you've shared. Your safety matters. Please contact the 988 Suicide & Crisis Lifeline (call/text 988) immediately. You're not alone, and help is available 24/7.",
     "I apologize, but I'm having trouble responding. If you need support, please call 988 for the Crisis Lifeline."}

\* The queries for which safety_check triggers
TriggeringQueries ==
    {q \in PipelineQueries :
        safety_check([query |-> q, safety_triggered |-> FALSE, response |-> <<>>,
                      context |-> "", sources |-> <<>>]).safety_triggered}

\* Run r has returned the reply its generation backend streamed, whole
ReturnedGenerated(r) ==
    /\ pruns[r].pc = "END"
    /\ pruns[r].reply = <<>>
    /\ pruns[r].state.response = <<pruns[r].partial>>

\* C28: a failing cache read or write never fails the run: after a failed read
\* of the embedding the embedding model is called, after a failed read of the
\* response cache the reply comes from the generation path and not from the
\* cache, and after a failed write the run has returned the reply it computed.
C28_CacheFailuresAbsorbed ==
    \A r \in DOMAIN pruns :
        /\ pruns[r].pc \in {"safety", "retrieve", "generate", "streaming", "END"}
        /\ \A e \in CallsOf(r) :
               /\ (e.op = "get" /\ ~e.ok /\ IsEmbedKey(e.key)) => pruns[r].embedded
               /\ (e.op = "get" /\ ~e.ok /\ IsLlmKey(e.key)) =>
                      /\ ~pruns[r].hit
                      /\ pruns[r].pc \in {"streaming", "END"}
                      /\ pruns[r].pc = "END" =>
                             \/ ReturnedGenerated(r)
                             \/ pruns[r].state.response[1] \in CannedTexts
               /\ (e.op = "set" /\ ~e.ok) =>
                      /\ ReturnedGenerated(r)
                      /\ pruns[r].state.response = <<e.value>>

\* A run whose read of a response another run had cached failed, and whose
\* write failed too, has returned the reply it generated.
C28_Witness ==
    \E r \in DOMAIN pruns, o \in DOMAIN pruns :
        /\ o # r
        /\ \E e \in CallsOf(o) : e.op = "set" /\ e.ok /\ IsLlmKey(e.key)
                                 /\ e.key = cache_key("llm:", pruns[r].query)
        /\ \E e \in CallsOf(r) : e.op = "get" /\ ~e.ok /\ IsLlmKey(e.key)
        /\ \E e \in CallsOf(r) : e.op = "get" /\ ~e.ok /\ IsEmbedKey(e.key)
        /\ \E e \in CallsOf(r) : e.op = "set" /\ ~e.ok
        /\ ReturnedGenerated(r)
        /\ pruns[r].partial = "Try slow breathing."

\* C29: whatever the interleaving of the runs that share the cache, a run whose
\* query triggers safety_check makes no call on the response cache; every
\* write to the response cache stores the non-empty reply a run's generation
\* backend produced to its end; and neither the crisis message nor the apology
\* is stored in the cache or returned from it.
C29_OnlyCompleteRepliesCached ==
    /\ \A e \in cachelog :
           IsLlmKey(e.key) =>
               /\ pruns[e.run].query \notin TriggeringQueries
               /\ e.op = "set" =>
                      /\ e.value # ""
                      /\ e.value \notin CannedTexts
                      /\ ReturnedGenerated(e.run)
                      /\ e.value = pruns[e.run].partial
    /\ \A m \in cachemem :
           IsLlmKey(m.key) =>
               /\ m.value \notin CannedTexts
               /\ \E e \in cachelog : e.op = "set" /\ e.ok /\ e.key = m.key
                                      /\ e.value = m.value
    /\ \A r \in DOMAIN pruns :
           /\ pruns[r].query \in TriggeringQueries => ~pruns[r].hit
           /\ pruns[r].hit =>
                  /\ pruns[r].state.response[1] \notin CannedTexts
                  /\ \E e \in cachelog : e.op = "set" /\ e.ok
                                         /\ e.key = cache_key("llm:", pruns[r].query)
                                         /\ <<e.value>> = pruns[r].state.response

\* A run with a triggering query has ended with the crisis message while
\* another run has cached the reply it generated.
C29_Witness ==
    \E r \in DOMAIN pruns, o \in DOMAIN pruns :
        /\ pruns[r].query \in TriggeringQueries
        /\ pruns[r].state.safety_triggered
        /\ pruns[r].pc = "END"
        /\ pruns[r].state.response[1] \in CannedTexts
        /\ \E e \in CallsOf(o) : e.op = "set" /\ e.ok /\ IsLlmKey(e.key)
        /\ cachemem # {}

\* A run has been served the reply another run cached.
C29_ServedFromCache ==
    \E r \in DOMAIN pruns : pruns[r].hit /\ pruns[r].pc = "END"

----------------------------------------------------------------------------
(* Properties of the graph of create_graph (SpecGraph) *)

\* What analyze_message reports for each text
AnalysisTable == [t \in Texts |-> analyze_message(t)]

\* C30: when safety_prefilter finds that the query requires escalation
\* (critical or high risk), the run ends right after that node: no other node
\* has run, safety_escalated is true, and the response list is exactly the
\* canned safe response of the tier.
C30_EscalationEndsGraph ==
    (gran # <<>> /\ AnalysisTable[gstate.query].risk_level \in {"critical", "high"}) =>
        /\ gpc = "END"
        /\ gran = <<"safety_prefilter">>
        /\ gstate.safety_escalated = TRUE
        /\ gstate.response =
               <<IF AnalysisTable[gstate.query].risk_level = "critical"
                 THEN CRISIS_RESPONSE ELSE HIGH_RISK_RESPONSE>>

\* A run for a high-risk query has ended after safety_prefilter.
C30_Witness ==
    /\ gran = <<"safety_prefilter">>
    /\ gpc = "END"
    /\ gstate.risk_level = Some("high")
    /\ gstate.response = <<HIGH_RISK_RESPONSE>>

\* A run for a critical query has ended after safety_prefilter.
C30_CriticalEnds ==
    /\ gran = <<"safety_prefilter">>
    /\ gpc = "END"
    /\ gstate.risk_level = Some("critical")
    /\ gstate.response = <<CRISIS_RESPONSE>>

\* A run for a query below the high tier has gone through every node.
C30_OthersGenerate ==
    /\ gpc = "END"
    /\ gran = <<"safety_prefilter", "rewrite_query", "vectorstore_retriever",
                "graph_retriever", "generate">>
    /\ gstate.risk_level = Some("moderate")
    /\ ~gstate.safety_escalated

=============================================================================
